---- MODULE Spec2Model ----
(***************************************************************************)
(* Model of the completion gateway (app/llm.py), of the tool-calling agent *)
(* (app/agent/toolcall.py) and of the swarm (app/swarm).                   *)
(*                                                                         *)
(* SpecGateway exercises ask / ask_tool alone, SpecDecode the decoding of   *)
(* the response text of ask_tool, Spec one agent and its run(),            *)
(* SpecConfigured an agent with a second special tool, SpecSequential and  *)
(* SpecServer two requests processed by the one agent of server.py, one    *)
(* after the other and interleaved at the awaits, SpecLive a run followed *)
(* to its end under fairness.  SpecCache exercises a ResponseCache,        *)
(* SpecSingleton the registry of gateway instances, SpecSwarm the          *)
(* coordinator and its pipeline, SpecRepeat calls of ask_tool that are     *)
(* repeated with the same message objects, SpecBackfill the id and type of *)
(* the decoded tool calls, SpecExecute act() on tool calls of any form.    *)
(*                                                                         *)
(* Texts are modelled as sequences of segments (strings); the text is the  *)
(* concatenation of its segments.  A message dict is a record whose fields *)
(* hold the marker Absent when the key is missing.                         *)
(***************************************************************************)
EXTENDS Integers, Sequences, FiniteSets, TLC

VARIABLES
    call,       \* the completion call in flight (LLM.ask / LLM.ask_tool)
    agent,      \* the fields of the ToolCallAgent instance
    pc,         \* position of the agent's run() coroutine
    frames,     \* continuations of the coroutines awaiting a summary
    act,        \* locals and outcome of the current / last act() step
    thought,    \* outcome of the current / last think() step
    run,        \* the current / last run() call and what it returned
    parked,     \* the coroutine of the other request on the same agent
    response_cache, \* the fields of a ResponseCache instance
    cache_use,  \* what the user of the cache did and saw
    _instances, \* LLM._instances: the gateway instance of each config name
    llm_use,    \* what the users of LLM(...) hold
    swarm       \* SwarmCoordinator and its pipeline: process_query()

\* the state of app/swarm and of the gateway registry
swarmVars == <<response_cache, cache_use, _instances, llm_use, swarm>>

vars == <<call, agent, pc, frames, act, thought, run, parked, swarmVars>>

----------------------------------------------------------------------------
(* Bounds of the model *)

MaxMsgs == 2
MaxCalls == 2
MaxSteps == 2
MaxRuns == 1

\* calls of ask_tool with the same message objects
MaxRounds == 2

\* when two requests are served on one agent: the step budget of the agent,
\* the tool calls of one response, the switches between the two coroutines
MaxStepsServed == 1
MaxCallsServed == 1
MaxSwitches == 2

\* the step budget of the agent whose run is followed to its end
MaxStepsLive == 1

\* the cache: its capacities, its keys, the calls of set()
MaxSize == 2
MaxKeys == 3
MaxOps == 4

\* the calls of process_query on one coordinator
MaxQueries == 1

----------------------------------------------------------------------------
(* Values *)

Absent == "<absent>"
None == "<None>"

ROLE_VALUES == {"system", "user", "assistant", "tool"}
TOOL_CHOICE_VALUES == {"none", "auto", "required"}

stop_after_attempt == 6

Dict(r, c, t) == [role |-> r, content |-> c, tool_calls |-> t]

\* message dicts a caller may pass to ask / ask_tool
DictMsgs ==
    { Dict("user", "text", Absent),
      Dict("system", "text", Absent),
      Dict("assistant", Absent, "calls"),
      Dict("system", Absent, "calls"),
      Dict("user", Absent, Absent),
      Dict(Absent, "text", Absent),
      Dict("bogus", "text", Absent) }

SeqsUpTo(S, n) == UNION { [1..k -> S] : k \in 0..n }

----------------------------------------------------------------------------
(* LLM.format_messages *)

format_messages_roles_only(messages) ==
    IF \E i \in 1..Len(messages) : messages[i].role \notin ROLE_VALUES
    THEN "ValueError"
    ELSE "ok"

format_messages(messages) ==
    IF \E i \in 1..Len(messages) : messages[i].role = Absent
    THEN "ValueError"
    ELSE IF \E i \in 1..Len(messages) : messages[i].role \notin ROLE_VALUES
    THEN "ValueError"
    ELSE IF \E i \in 1..Len(messages) :
                messages[i].content = Absent /\ messages[i].tool_calls = Absent
    THEN "ValueError"
    ELSE "ok"

----------------------------------------------------------------------------
(* The completion endpoint (external collaborator) *)

\* An arguments string is held as the sequence of its tokens: the characters
\* the decoding looks at (colon, blank, newline) and the words between them.
RECURSIVE Str(_)
Str(ts) == IF ts = <<>> THEN "" ELSE Head(ts) \o Str(Tail(ts))

Colon == ":"
Newline == "\n"
Blank == " "

\* json.dumps of a dict of strings, given as its items in insertion order
RECURSIVE JoinItems(_)
JoinItems(items) ==
    IF items = <<>> THEN ""
    ELSE "\"" \o items[1][1] \o "\": \"" \o items[1][2] \o "\""
            \o (IF Len(items) > 1 THEN ", " ELSE "") \o JoinItems(Tail(items))

JsonDumps(items) == "{" \o JoinItems(items) \o "}"

\* the lines of key and value the model writes instead of JSON
KeyValueLines ==
    { <<"a", Colon, Blank, "1">>,
      <<"b", Colon, Blank, "2">>,
      <<Blank, "a", Blank, Colon, "3">>,
      <<"c", Colon, "1", Colon, "2">>,
      <<"garbage">> }

\* arguments that are not JSON: one or two lines
NonJsonTexts ==
    KeyValueLines
        \cup { l1 \o <<Newline>> \o l2 :
                 l1 \in KeyValueLines,
                 l2 \in { <<"b", Colon, Blank, "2">>, <<"garbage">> } }
        \cup { <<Blank>> \o l \o <<Newline>> : l \in KeyValueLines }

\* arguments that are JSON objects, with the items json.loads gives
JsonTexts ==
    { [tokens |-> <<"{}">>, items |-> <<>>],
      [tokens |-> <<"{\"status\": \"failure\"}">>,
       items |-> << <<"status", "failure">> >>],
      [tokens |-> <<"{\"status\":\"failure\"}">>,
       items |-> << <<"status", "failure">> >>] }

\* the texts of arguments
ArgumentTexts == { j.tokens : j \in JsonTexts } \cup NonJsonTexts

\* a tool call as the model writes it in its JSON answer
ToolNames == {"terminate", "create_chat_completion", "no_such_tool"}
Arguments == {"{}", "garbage"}
StatusArguments == {"{\"status\": \"failure\"}"}
RawCalls ==
    [shape : {"call"}, id : {Absent}, type : {Absent},
     name : ToolNames, arguments : Arguments]
        \cup [shape : {"call"}, id : {Absent}, type : {Absent},
              name : {"terminate"}, arguments : StatusArguments]

\* the text a model answers to a prompt
Answer(prompt) == "A(" \o prompt \o ")"

PromptOf(c) ==
    IF Len(c.messages) = 0 \/ c.messages[Len(c.messages)].content = Absent
    THEN ""
    ELSE c.messages[Len(c.messages)].content

\* Raw response texts.  form is what the whole text is for json.loads:
\* "plain" (not JSON), "json" (an object with a tool_calls array, held in
\* calls), "object" (an object without tool_calls), "array", "string",
\* "number" or "null".  block is the same for the content of the first
\* fenced json block of the text, "absent" when the text has no such block.
RawText(t) == [form |-> "plain", block |-> "absent", text |-> t, calls |-> <<>>]
RawJson(cs) ==
    [form |-> "json", block |-> "absent", text |-> "{tool_calls}", calls |-> cs]
RawValue(k) ==
    [form |-> k, block |-> "absent", text |-> "<json " \o k \o ">",
     calls |-> <<>>]
RawFenced(k, cs) ==
    [form |-> "plain", block |-> k,
     text |-> "<prose with a fenced json block: " \o k \o ">", calls |-> cs]

\* entries of a tool_calls array that are not tool calls: not an object, an
\* object without function, a function without arguments
BrokenEntries ==
    { [shape |-> sh, id |-> Absent, type |-> Absent,
       name |-> "", arguments |-> ""] :
        sh \in {"scalar", "nofunction", "noarguments"} }

\* the id and type keys of an entry as the model writes them, Absent for a
\* key it leaves out
IdsAndTypes ==
    { [id |-> Absent, type |-> Absent],
      [id |-> "call_m1", type |-> "function"],
      [id |-> Absent, type |-> "custom"],
      [id |-> "call_m2", type |-> Absent] }

DecodeArguments == { Str(ts) : ts \in ArgumentTexts }

\* a well-formed entry
Entry(id, type, arguments) ==
    [shape |-> "call", id |-> id, type |-> type,
     name |-> "terminate", arguments |-> arguments]

DecodeEntries ==
    { Entry(Absent, Absent, a) : a \in DecodeArguments } \cup BrokenEntries

\* the entries that follow the first one of a tool_calls array
LaterEntries ==
    { Entry(Absent, Absent, a) : a \in {"{}", "{\"status\":\"failure\"}"} }
        \cup { e \in BrokenEntries : e.shape \in {"scalar", "nofunction"} }

\* the tool_calls arrays: any first entry, then up to MaxCalls - 1 more
DecodeLists ==
    { <<>> } \cup { <<e>> \o t : e \in DecodeEntries,
                                t \in SeqsUpTo(LaterEntries, MaxCalls - 1) }

\* the texts given to the decoding of ask_tool when it is exercised alone
DecodeResponses ==
    { RawText(""), RawText("text") }
        \cup { RawValue(k) : k \in {"object", "array", "string", "number", "null"} }
        \cup { RawJson(cs) : cs \in DecodeLists }
        \cup { RawFenced(k, <<>>) : k \in {"plain", "object", "number"} }
        \cup { RawFenced("json", cs) : cs \in SeqsUpTo(DecodeEntries, 1) }

\* the tool_calls arrays whose entries differ in their id and type keys
BackfillResponses ==
    { RawJson(cs) :
        cs \in SeqsUpTo({ Entry(k.id, k.type, "{}") : k \in IdsAndTypes },
                        MaxCalls) }
        \cup { RawFenced("json", <<Entry(k.id, k.type, "{}")>>) :
                    k \in IdsAndTypes }

RawResponses(c) ==
    IF c.caller = "decode" THEN DecodeResponses
    ELSE IF c.caller = "backfill" THEN BackfillResponses
    ELSE { RawText(""), RawText(Answer(PromptOf(c))) }
            \cup (IF c.kind = "ask_tool"
                  THEN { RawJson(cs) : cs \in SeqsUpTo(RawCalls,
                                        IF c.caller = "think" THEN MaxCalls ELSE 1) }
                  ELSE {})

\* what the endpoint does with one request
EndpointBehaviours(c) ==
    { [kind |-> "error", err |-> "ConnectError", raw |-> RawText("")] }
        \cup { [kind |-> "nocontent", err |-> "none", raw |-> RawText("")] }
        \cup { [kind |-> "text", err |-> "none", raw |-> r] : r \in RawResponses(c) }

----------------------------------------------------------------------------
(* One execution of the body of ask / ask_tool *)

\* a Message object; tool_calls is NoCalls (None) or Calls(list)
NoCalls == [none |-> TRUE, list |-> <<>>]
Calls(cs) == [none |-> FALSE, list |-> cs]
Message(r, c, t) == [role |-> r, content |-> c, tool_calls |-> t]

\* What a call gives is held in the shape of a Message: a str is the record
\* with the role "<str>" and the text as content, no value the one with the
\* content None.
TextValue(t) == Message("<str>", t, NoCalls)
NoValue == Message("<none>", None, NoCalls)

Raised(e, didSend) == [raised |-> e, sent |-> didSend, value |-> NoValue]
Returned(v) == [raised |-> "none", sent |-> TRUE, value |-> v]

\* LLM._ollama_ask: the request is sent, ep is the endpoint's behaviour
OllamaAsk(stream, ep) ==
    IF ep.kind = "error" THEN Raised(ep.err, TRUE)
    ELSE IF ep.kind = "nocontent" THEN Raised("ValueError", TRUE)
    ELSE IF stream /\ ep.raw.text = "" THEN Raised("ValueError", TRUE)
    ELSE Returned(TextValue(ep.raw.text))

\* formatting of system_msgs and messages (llm.py 92-96, 194-198)
FormatAll(c) ==
    IF Len(c.system_msgs) > 0 /\ format_messages(c.system_msgs) # "ok"
    THEN "ValueError"
    ELSE format_messages(c.messages)

\* the keyword parameters of ask (llm.py 82-88); ask_tool takes any
\* (**kwargs, llm.py 177-186)
AskParameters == {"messages", "system_msgs", "stream", "temperature"}

\* the call binds to the signature of the method
Accepts(c) == c.kind = "ask_tool" \/ c.kwargs \subseteq AskParameters

\* LLM.ask
ask(c, ep) ==
    IF ~Accepts(c) THEN Raised("TypeError", FALSE)
    ELSE IF FormatAll(c) # "ok" THEN Raised("ValueError", FALSE)
    ELSE OllamaAsk(c.stream, ep)

\* the tokens of an arguments string
TokensOf ==
    [a \in { Str(ts) : ts \in ArgumentTexts } |->
        CHOOSE ts \in ArgumentTexts : Str(ts) = a]

Tokens(a) == TokensOf[a]

Whitespace == {Blank, Newline}

RECURSIVE LStrip(_)
LStrip(ts) ==
    IF ts # <<>> /\ Head(ts) \in Whitespace THEN LStrip(Tail(ts)) ELSE ts

RECURSIVE RStrip(_)
RStrip(ts) ==
    IF ts # <<>> /\ ts[Len(ts)] \in Whitespace
    THEN RStrip(SubSeq(ts, 1, Len(ts) - 1))
    ELSE ts

\* str.strip()
Strip(ts) == RStrip(LStrip(ts))

Has(ts, t) == \E i \in 1..Len(ts) : ts[i] = t

FirstOf(ts, t) ==
    CHOOSE i \in 1..Len(ts) : ts[i] = t /\ \A j \in 1..(i - 1) : ts[j] # t

\* str.split(sep)
RECURSIVE Split(_, _)
Split(ts, sep) ==
    IF ~Has(ts, sep) THEN <<ts>>
    ELSE <<SubSeq(ts, 1, FirstOf(ts, sep) - 1)>>
            \o Split(SubSeq(ts, FirstOf(ts, sep) + 1, Len(ts)), sep)

\* line.split(":", 1)
SplitOnce(ts, sep) ==
    <<SubSeq(ts, 1, FirstOf(ts, sep) - 1),
      SubSeq(ts, FirstOf(ts, sep) + 1, Len(ts))>>

\* d[k] = v on a dict held as its items in insertion order
Put(d, k, v) ==
    IF \E i \in 1..Len(d) : d[i][1] = k
    THEN [i \in 1..Len(d) |-> IF d[i][1] = k THEN <<k, v>> ELSE d[i]]
    ELSE Append(d, <<k, v>>)

\* {k.strip(): v for k, v in pairs}
RECURSIVE DictOfLines(_, _)
DictOfLines(lines, d) ==
    IF lines = <<>> THEN d
    ELSE LET line == Head(lines)
         IN  IF Has(line, Colon)
             THEN LET kv == SplitOnce(line, Colon)
                  IN  DictOfLines(Tail(lines),
                                  Put(d, Str(Strip(kv[1])), Str(kv[2])))
             ELSE DictOfLines(Tail(lines), d)

\* the dict the recovery builds from the text of the arguments
Recovered(ts) == DictOfLines(Split(Strip(ts), Newline), <<>>)

\* the strings json.loads accepts, with the items it gives
JsonValues ==
    { [text |-> Str(j.tokens), items |-> j.items] : j \in JsonTexts }
        \cup { [text |-> JsonDumps(Recovered(ts)), items |-> Recovered(ts)] :
                 ts \in NonJsonTexts }

JsonStrings == { j.text : j \in JsonValues }

\* json.loads(arguments) succeeds (llm.py 277-279, toolcall.py 169)
JSONValid(a) == a \in JsonStrings

\* recovery of an arguments string that is not JSON (llm.py 282-287): the
\* lines holding a colon become a mapping; no such line gives the empty
\* mapping
RecoveredArguments ==
    [a \in { Str(ts) : ts \in NonJsonTexts } |-> JsonDumps(Recovered(Tokens(a)))]

RecoverArguments(a) == RecoveredArguments[a]

\* json.loads(arguments), as items
JsonItems == [a \in JsonStrings |-> (CHOOSE j \in JsonValues : j.text = a).items]

JsonLoads(a) == JsonItems[a]

DecodeCallReencoded(tc) ==
    [name |-> tc.name,
     arguments |-> IF JSONValid(tc.arguments) THEN JsonDumps(JsonLoads(tc.arguments))
                   ELSE RecoverArguments(tc.arguments)]

\* the function of one entry of the tool_calls array (llm.py 274-287)
DecodeCall(tc) ==
    [name |-> tc.name,
     arguments |-> IF JSONValid(tc.arguments) THEN tc.arguments
                   ELSE RecoverArguments(tc.arguments)]

\* uuid.uuid4().hex[:8]: the values a draw can give
UuidHex == {"0a1b2c3d", "4e5f6a7b"}

\* the draws of one decoding, one for every entry: "" where none is made
NoDraws == [i \in 1..MaxCalls |-> ""]

\* f"call_{uuid.uuid4().hex[:8]}"
NewId(hex) == "call_" \o hex

BackfillAlways(tc, hex) == [id |-> NewId(hex), type |-> "function"]

\* ensure id and type exist (llm.py 269-273)
Backfill(tc, hex) ==
    [id |-> IF tc.id = Absent THEN NewId(hex) ELSE tc.id,
     type |-> IF tc.type = Absent THEN "function" ELSE tc.type]

\* the entry appended to tool_calls (llm.py 268-289)
DecodeEntry(tc, hex) ==
    [id |-> Backfill(tc, hex).id, type |-> Backfill(tc, hex).type,
     name |-> DecodeCall(tc).name, arguments |-> DecodeCall(tc).arguments]

ParsedWhole(raw) == raw.form

\* what json.loads is given: the fenced block when the text has one, else
\* the whole text (llm.py 258-263)
Parsed(raw) == IF raw.block # "absent" THEN raw.block ELSE raw.form

DecodesInAnyMode(c) == c.tools

\* the response is decoded (llm.py 254)
Decodes(c) == c.tools /\ c.tool_choice # "none"

\* the first entry of the tool_calls array that is not a tool call
FirstBroken(cs) ==
    IF \E i \in 1..Len(cs) : cs[i].shape # "call"
    THEN cs[CHOOSE i \in 1..Len(cs) :
                /\ cs[i].shape # "call"
                /\ \A j \in 1..(i - 1) : cs[j].shape = "call"].shape
    ELSE "none"

\* the decoding raises an error that its except clause (llm.py 296) does
\* not catch: the membership test on a value that is no container (265),
\* the item assignment on an entry that is no object (270-273)
DecodeRaises(c, raw) ==
    /\ Decodes(c)
    /\ \/ Parsed(raw) \in {"number", "null"}
       \/ Parsed(raw) = "json" /\ FirstBroken(raw.calls) = "scalar"

\* decoding of the raw text (llm.py 253-301)
AskToolDecode(c, raw) ==
    IF Decodes(c) /\ Parsed(raw) = "json" /\ FirstBroken(raw.calls) = "none"
    THEN Message("assistant", None,
                 Calls([i \in 1..Len(raw.calls) |->
                            DecodeEntry(raw.calls[i], c.uuid4[i])]))
    ELSE Message("assistant", raw.text, NoCalls)

\* the first system message of the merged list has no content to extend
\* (llm.py 241-245)
Merged(c) == c.system_msgs \o c.messages

AddendumKeyError(c) ==
    /\ c.tools
    /\ c.tool_choice # "none"
    /\ \E i \in 1..Len(Merged(c)) :
          /\ Merged(c)[i].role = "system"
          /\ \A j \in 1..(i - 1) : Merged(c)[j].role # "system"
          /\ Merged(c)[i].content = Absent

ValidToolChoice(tc) == tc \in TOOL_CHOICE_VALUES

\* the protocol addendum (llm.py 209-235); the example id in it, drawn anew
\* at every call, is not told apart
tool_instructions == "<tool_instructions>"

\* if tools and tool_choice != ToolChoice.NONE (llm.py 200)
AddsInstructions(c) == c.tools /\ c.tool_choice # "none"

\* the index of the first system message of the list, 0 without one
FirstSystem(ms) ==
    IF \E i \in 1..Len(ms) : ms[i].role = "system"
    THEN CHOOSE i \in 1..Len(ms) :
            ms[i].role = "system" /\ \A j \in 1..(i - 1) : ms[j].role # "system"
    ELSE 0

Extended(content) == content \o "\n\n" \o tool_instructions

\* messages.insert(0, {"role": "system", "content": tool_instructions})
Inserted(ms) == <<Dict("system", tool_instructions, Absent)>> \o ms

\* find or add system message (llm.py 239-248)
WithInstructions(ms) ==
    IF FirstSystem(ms) > 0
    THEN [ms EXCEPT ![FirstSystem(ms)].content = Extended(@)]
    ELSE Inserted(ms)

\* the messages of the request of ask_tool (llm.py 194-251)
Payload(c) ==
    IF c.kind = "ask_tool" /\ AddsInstructions(c)
    THEN WithInstructions(Merged(c)) ELSE Merged(c)

\* the attempt gets as far as the addendum
ReachesInstructions(c) ==
    /\ c.kind = "ask_tool"
    /\ ValidToolChoice(c.tool_choice)
    /\ FormatAll(c) = "ok"
    /\ AddsInstructions(c)
    /\ ~AddendumKeyError(c)

\* format_messages appends a dict of the caller as it is and the to_dict()
\* of a Message (llm.py 56-63): the lists the caller holds after an attempt
\* that extended the first system message
AfterAttempt(c) ==
    IF ReachesInstructions(c) /\ c.objects = "dict"
         /\ FirstSystem(Merged(c)) > 0
    THEN [system |-> SubSeq(WithInstructions(Merged(c)), 1, Len(c.system_msgs)),
          messages |-> SubSeq(WithInstructions(Merged(c)),
                              Len(c.system_msgs) + 1, Len(Merged(c)))]
    ELSE [system |-> c.system_msgs, messages |-> c.messages]

\* LLM.ask_tool
ask_tool(c, ep) ==
    IF ~ValidToolChoice(c.tool_choice) THEN Raised("ValueError", FALSE)
    ELSE IF FormatAll(c) # "ok" THEN Raised("ValueError", FALSE)
    ELSE IF AddendumKeyError(c) THEN Raised("KeyError", FALSE)
    ELSE LET o == OllamaAsk(FALSE, ep)
         IN  IF o.raised # "none" THEN o
             ELSE IF DecodeRaises(c, ep.raw) THEN Raised("TypeError", TRUE)
             ELSE Returned(AskToolDecode(c, ep.raw))

----------------------------------------------------------------------------
(* The registry of gateway instances (llm.py 21-48) *)

\* the config names LLM(...) is constructed with; those with a section of
\* their own in config.llm
ConfigNames == {"default", "vision", "other"}
Configured == {"default", "vision"}

\* llm_config.get(config_name, llm_config["default"])
Settings(config_name) ==
    LET section == IF config_name \in Configured THEN config_name ELSE "default"
    IN  [model |-> "model of " \o section, temperature |-> "configured"]

\* the values callers assign to the fields of a gateway
Models == {"mistral:latest", "deepseek-r1:latest", "llama3:8b"}
Temperatures == {"0.3"}

\* no instance: the name is not a key of _instances
NoInstance ==
    [made |-> FALSE, id |-> 0, model |-> "", temperature |-> "",
     client |-> FALSE, inits |-> 0]

NoInstances == [n \in ConfigNames |-> NoInstance]

\* super().__new__(cls): a new object, without attributes
Allocated(id) == [NoInstance EXCEPT !.made = TRUE, !.id = id]

NeverHasClient(inst) == FALSE

\* hasattr(self, "client")
HasClient(inst) == inst.client

\* LLM.__init__
__init__(inst, config_name) ==
    IF ~HasClient(inst)
    THEN [inst EXCEPT !.model = Settings(config_name).model,
                      !.temperature = Settings(config_name).temperature,
                      !.client = TRUE,
                      !.inits = @ + 1]
    ELSE inst

\* LLM(config_name): __new__, and then the __init__ that Python calls on the
\* object __new__ returned; gives the registry and the instance returned
LLM(instances, allocated, config_name) ==
    LET registered ==
            IF ~instances[config_name].made
            THEN [instances EXCEPT ![config_name] =
                        __init__(Allocated(allocated + 1), config_name)]
            ELSE instances
        again == [registered EXCEPT ![config_name] = __init__(@, config_name)]
    IN  [instances |-> again, id |-> again[config_name].id]

\* the users of LLM(...): instances allocated so far, the last operation, its
\* config name and the instance it returned
NoLLMUse == [allocated |-> 0, op |-> "none", name |-> "", handle |-> 0]

\* the config name under which the instance is registered
NameOf(instances, id) == CHOOSE n \in ConfigNames : instances[n].id = id

----------------------------------------------------------------------------
(* The retry decorator of ask and ask_tool (llm.py 78-81, 173-176) *)

IdleCall ==
    [caller |-> "none", kind |-> "ask", messages |-> <<>>, system_msgs |-> <<>>,
     tools |-> FALSE, tool_choice |-> "auto", stream |-> FALSE,
     attempt |-> 0, sent |-> 0, status |-> "idle", value |-> NoValue,
     error |-> "none", last |-> "none", resp |-> RawText(""),
     kwargs |-> {}, llm |-> 0, model |-> "",
     objects |-> "dict", given |-> <<>>, payload |-> <<>>, round |-> 0,
     uuid4 |-> NoDraws]

\* the callers that pass Message objects (toolcall.py 53-60); the others
\* pass dicts
PassMessages == {"think"}

NewCall(who, kind, msgs, sys, tools, tc, stream) ==
    [IdleCall EXCEPT !.caller = who, !.kind = kind, !.messages = msgs,
                     !.system_msgs = sys, !.tools = tools, !.tool_choice = tc,
                     !.stream = stream, !.status = "pending",
                     !.objects = IF who \in PassMessages THEN "Message"
                                 ELSE "dict",
                     !.given = sys \o msgs, !.round = 1]

StopLate(n) == n >= stop_after_attempt + 1

\* stop=stop_after_attempt(6)
Stop(n) == n >= stop_after_attempt

\* retry: the decorator names no retry predicate, so every exception is retried
Retry(e) == TRUE

\* the decorator does not set reraise: exhaustion raises RetryError
ExhaustedError(e) == "RetryError"

\* the responses met while two requests are served
Served(eps) ==
    IF parked.on THEN { ep \in eps : Len(ep.raw.calls) <= MaxCallsServed }
    ELSE eps

\* "model": self.model of the payload (llm.py 118); 0 is a gateway whose
\* fields are not modelled
ModelOf(id) == IF id = 0 THEN "" ELSE _instances[NameOf(_instances, id)].model

\* the draws of the decoding of a response: one for every entry without an
\* id; the values are told apart where the decoding is exercised alone
Draws(c, ep) ==
    LET drawn == { i \in 1..Len(ep.raw.calls) :
                      /\ c.kind = "ask_tool" /\ Decodes(c)
                      /\ ep.kind = "text"
                      /\ ep.raw.calls[i].id = Absent }
        values == IF c.caller = "backfill" THEN UuidHex
                  ELSE {CHOOSE h \in UuidHex : TRUE}
    IN  { d \in [1..MaxCalls -> values \cup {""}] :
            \A i \in 1..MaxCalls : (d[i] = "") <=> (i \notin drawn) }

\* one attempt of the call in flight
Attempt ==
    /\ call.status = "pending"
    /\ \E ep \in Served(EndpointBehaviours(call)) : \E d \in Draws(call, ep) :
        LET o == IF call.kind = "ask" THEN ask(call, ep)
                 ELSE ask_tool([call EXCEPT !.uuid4 = d], ep)
            n == call.attempt + 1
        IN  call' = [call EXCEPT
                !.attempt = n,
                !.uuid4 = d,
                !.sent = @ + (IF o.sent THEN 1 ELSE 0),
                !.resp = IF o.sent THEN ep.raw ELSE @,
                !.model = IF o.sent THEN ModelOf(call.llm) ELSE @,
                !.payload = IF o.sent THEN Payload(call) ELSE @,
                !.system_msgs = AfterAttempt(call).system,
                !.messages = AfterAttempt(call).messages,
                !.last = o.raised,
                !.value = o.value,
                !.status = IF o.raised = "none" THEN "returned"
                           ELSE IF Retry(o.raised) /\ ~Stop(n) THEN "pending"
                           ELSE "raised",
                !.error = IF o.raised = "none" THEN "none"
                          ELSE IF Retry(o.raised) /\ ~Stop(n) THEN "none"
                          ELSE IF Retry(o.raised) THEN ExhaustedError(o.raised)
                          ELSE o.raised]
    /\ UNCHANGED <<agent, pc, frames, act, thought, run>>
    /\ UNCHANGED <<parked, swarmVars>>

----------------------------------------------------------------------------
(* Direct use of the gateway by a caller *)

SystemMsgs == { <<>>, <<Dict("system", "text", Absent)>>, <<Dict("bogus", "text", Absent)>> }
MessageLists == SeqsUpTo(DictMsgs, MaxMsgs) \ {<<>>}
ToolChoices == TOOL_CHOICE_VALUES \cup {"sometimes"}

CallAsk ==
    /\ call.status = "idle"
    /\ pc = "idle"
    /\ \E msgs \in MessageLists, sys \in SystemMsgs, stream \in BOOLEAN :
          call' = NewCall("direct", "ask", msgs, sys, FALSE, "auto", stream)
    /\ UNCHANGED <<agent, pc, frames, act, thought, run>>
    /\ UNCHANGED <<parked, swarmVars>>

CallAskTool ==
    /\ call.status = "idle"
    /\ pc = "idle"
    /\ \E msgs \in MessageLists, sys \in SystemMsgs, tools \in BOOLEAN,
          tc \in ToolChoices :
          call' = NewCall("direct", "ask_tool", msgs, sys, tools, tc, FALSE)
    /\ UNCHANGED <<agent, pc, frames, act, thought, run>>
    /\ UNCHANGED <<parked, swarmVars>>

\* ask_tool with tools on a well-formed conversation
CallDecode ==
    /\ call.status = "idle"
    /\ pc = "idle"
    /\ \E tools \in BOOLEAN, tc \in TOOL_CHOICE_VALUES :
          call' = NewCall("decode", "ask_tool", <<Dict("user", "text", Absent)>>,
                          <<>>, tools, tc, FALSE)
    /\ UNCHANGED <<agent, pc, frames, act, thought, run>>
    /\ UNCHANGED <<parked, swarmVars>>

\* ask_tool with tools where the answers are tool_calls arrays
CallBackfill ==
    /\ call.status = "idle"
    /\ pc = "idle"
    /\ \E tc \in TOOL_CHOICE_VALUES, sys \in SystemMsgs :
          call' = NewCall("backfill", "ask_tool",
                          <<Dict("user", "text", Absent)>>, sys, TRUE, tc, FALSE)
    /\ UNCHANGED <<agent, pc, frames, act, thought, run>>
    /\ UNCHANGED <<parked, swarmVars>>

\* the caller takes the result or the exception
CallDone ==
    /\ call.caller \in {"direct", "decode", "backfill"}
    /\ call.status \in {"returned", "raised"}
    /\ call' = IdleCall
    /\ UNCHANGED <<agent, pc, frames, act, thought, run>>
    /\ UNCHANGED <<parked, swarmVars>>

----------------------------------------------------------------------------
(* Texts of the agent *)

TOOL_CALL_REQUIRED == "Tool calls required but none provided"
NEXT_STEP_PROMPT == "<next step prompt>"
SYSTEM_PROMPT == "<system prompt>"
OPEN_MARKER == "===== FINAL ANSWER ====="
CLOSE_MARKER == "======================="
COMPLETED == "The interaction has been completed."
NO_CONTENT == "No content or commands to execute"

\* the questions of the runs: the n-th run asks one of the first n
Question(k) == IF k = 1 THEN "q1" ELSE IF k = 2 THEN "q2" ELSE "q3"
Questions(n) == { Question(k) : k \in 1..n }

SummaryPrompt(q) ==
    "Please provide a clear answer to this question: \"" \o q
        \o "\" Keep your answer direct, informative, and under 200 words."
FallbackPrompt(q) == q \o " Keep your answer simple and under 150 words."
Sorry(q) ==
    "Sorry, I couldn't generate an answer to your question: '" \o q
        \o "'\nPlease try asking again or rephrasing your question."

\* f"===== FINAL ANSWER =====\n\n{text}\n\n======================="
Envelope(text) == <<OPEN_MARKER, text, CLOSE_MARKER>>

\* the text returned by the primary path of _generate_summary (line 264)
SummaryText(status, summary) ==
    <<"The interaction has been completed with status: " \o status>>
        \o Envelope(summary)

Truthy(s) == s # None /\ s # ""
HasCalls(t) == ~t.none /\ Len(t.list) > 0

----------------------------------------------------------------------------
(* Message constructors and Message.to_dict (app/schema.py) *)

user_message(c) == Message("user", c, NoCalls)
system_message(c) == Message("system", c, NoCalls)
assistant_message(c) == Message("assistant", c, NoCalls)
tool_message(c) == Message("tool", c, NoCalls)
from_tool_calls(c, cs) == Message("assistant", c, Calls(cs))

\* only the fields that are not None become keys of the dict
to_dict(m) ==
    Dict(m.role,
         IF m.content = None THEN Absent ELSE m.content,
         IF m.tool_calls.none THEN Absent ELSE "calls")

ToDicts(ms) == [i \in 1..Len(ms) |-> to_dict(ms[i])]

----------------------------------------------------------------------------
(* The tool registry (external collaborator) and execute_tool *)

tool_map == {"create_chat_completion", "terminate"}
\* the default of the field special_tool_names, and a configured list that
\* names a second tool
special_tool_names == {"terminate"}
ConfiguredSpecialTools == {"terminate", "create_chat_completion"}

\* what a registered tool does when executed
ToolOutcomes == {"output", "empty", "raise"}

_is_special_tool(a, name) == name \in a.special_tool_names
_should_finish_execution(name) == TRUE

\* the tool is looked up, its arguments parsed and the registry invoked
Invoked(command) ==
    /\ command.name # ""
    /\ command.name \in tool_map
    /\ JSONValid(command.arguments)

StatusDefault(arguments) == "success"

\* args.get("status", "success") if args else "success"
StatusOf(arguments) ==
    LET args == JsonLoads(arguments)
    IN  IF \E i \in 1..Len(args) : args[i][1] = "status"
        THEN args[CHOOSE i \in 1..Len(args) : args[i][1] = "status"][2]
        ELSE "success"

\* the string execute_tool returns; outcome is what the tool does if invoked
ErrorString(body) == "Error: " \o body

ObservationUnguarded(command, outcome) ==
    IF command.name = "" THEN ErrorString("Invalid command format")
    ELSE IF outcome = "raise"
    THEN ErrorString("Tool '" \o command.name \o "' encountered a problem")
    ELSE IF outcome = "output"
    THEN "Observed output of cmd " \o command.name \o " executed"
    ELSE "Cmd " \o command.name \o " completed with no output"

Observation(command, outcome) ==
    IF command.name = "" THEN ErrorString("Invalid command format")
    ELSE IF command.name \notin tool_map
    THEN ErrorString("Unknown tool '" \o command.name \o "'")
    ELSE IF ~JSONValid(command.arguments)
    THEN ErrorString("Error parsing arguments for " \o command.name
                        \o ": Invalid JSON format")
    ELSE IF outcome = "raise"
    THEN ErrorString("Tool '" \o command.name \o "' encountered a problem")
    ELSE IF outcome = "output"
    THEN "Observed output of cmd " \o command.name \o " executed"
    ELSE "Cmd " \o command.name \o " completed with no output"

FinishesRunOnFailure(a, command, outcome) ==
    /\ Invoked(command)
    /\ _is_special_tool(a, command.name)
    /\ command.name = "terminate"
    /\ _should_finish_execution(command.name)

\* _handle_special_tool reaches the summary generation
FinishesRun(a, command, outcome) ==
    /\ Invoked(command)
    /\ outcome # "raise"
    /\ _is_special_tool(a, command.name)
    /\ command.name = "terminate"
    /\ _should_finish_execution(command.name)

----------------------------------------------------------------------------
(* ResponseCache (app/swarm/coordinator.py 8-21) *)

\* the default capacity
max_size == 100

CacheKeys == 1..MaxKeys
CacheValues == {"r1", "r2"}

\* the dict is the sequence of its items in insertion order
ResponseCacheInit(n) == [cache |-> <<>>, max_size |-> n]

KeysOf(c) == { c[i].key : i \in 1..Len(c) }

IndexOf(c, key) == CHOOSE i \in 1..Len(c) : c[i].key = key

\* self.cache.get(key)
get(c, key) == IF key \in KeysOf(c) THEN c[IndexOf(c, key)].value ELSE None

AfterGetRecent(c, key) ==
    IF key \in KeysOf(c)
    THEN SelectSeq(c, LAMBDA e : e.key # key) \o <<c[IndexOf(c, key)]>>
    ELSE c

\* the dict after get(): the lookup leaves it as it is
AfterGet(c, key) == c

newest_key(c) == c[Len(c)].key

\* next(iter(self.cache))
oldest_key(c) == c[1].key

\* del self.cache[key]
Del(c, key) == SelectSeq(c, LAMBDA e : e.key # key)

\* self.cache[key] = value: a key of the dict keeps its place
SetItem(c, key, value) ==
    IF key \in KeysOf(c)
    THEN [c EXCEPT ![IndexOf(c, key)].value = value]
    ELSE Append(c, [key |-> key, value |-> value])

AtCapacityLate(rc) == Len(rc.cache) > rc.max_size

\* the cache is at capacity
AtCapacity(rc) == Len(rc.cache) >= rc.max_size

\* ResponseCache.set
set(rc, key, value) ==
    LET kept == IF AtCapacity(rc) THEN Del(rc.cache, oldest_key(rc.cache))
                ELSE rc.cache
    IN  [rc EXCEPT !.cache = SetItem(kept, key, value)]

\* the user of the cache: number of set() calls, for every key the call that
\* inserted it last and the value given last, the last operation and its
\* key, the key of the last get() and what it returned
CacheUnused ==
    [sets |-> 0, stamps |-> [k \in CacheKeys |-> 0],
     given |-> [k \in CacheKeys |-> None],
     op |-> "none", key |-> 0, read |-> 0, got |-> None]

\* the key in the cache whose insertion is the earliest
EarliestInserted(rc, use) ==
    CHOOSE k \in KeysOf(rc.cache) :
        \A j \in KeysOf(rc.cache) : use.stamps[k] <= use.stamps[j]

\* set(key, ...) inserts the key: the key is not in the cache, or it is the
\* one the same call evicts first
Inserts(rc, use, key) ==
    \/ key \notin KeysOf(rc.cache)
    \/ AtCapacity(rc) /\ key = EarliestInserted(rc, use)

----------------------------------------------------------------------------
(* The swarm: initial values *)

\* the agents of the pipeline (multi_agent_pipeline.py 70-74), in the order
\* of their construction
AgentSpecs ==
    << [name |-> "browser_navigator", model |-> "mistral:latest",
        role |-> "Web Navigation"],
       [name |-> "researcher", model |-> "deepseek-r1:latest",
        role |-> "Research"],
       [name |-> "synthesizer", model |-> "llama3:8b",
        role |-> "Result Synthesis"] >>

AgentNames == { AgentSpecs[i].name : i \in 1..Len(AgentSpecs) }

\* no coordinator has been constructed
NoSwarm ==
    [constructed |-> FALSE,
     agents |-> [a \in AgentNames |-> [llm |-> 0, role |-> ""]],
     pc |-> "idle", n |-> 0, query |-> <<>>, branch |-> "none",
     tasks |-> 0, task_result |-> "", syntheses |-> 0, source |-> "",
     error |-> "none", fallbacks |-> 0, outcome |-> "none", value |-> "",
     requests |-> {}]

\* no cache, gateway registry or coordinator is in use
SwarmUnused ==
    /\ response_cache = ResponseCacheInit(max_size)
    /\ cache_use = CacheUnused
    /\ _instances = NoInstances
    /\ llm_use = NoLLMUse
    /\ swarm = NoSwarm

----------------------------------------------------------------------------
(* ToolCallAgent: state *)

max_steps == MaxSteps

InitAgent(mode) ==
    [state |-> "IDLE", tool_choices |-> mode, memory |-> <<>>,
     tool_calls |-> Calls(<<>>), final_summary |-> <<>>,
     original_question |-> "", current_step |-> 0, tool_results |-> <<>>,
     special_tool_names |-> special_tool_names, max_steps |-> max_steps]

IdleAct ==
    [i |-> 0, results |-> <<>>, executed |-> <<>>, outcome |-> "none",
     log |-> <<>>, ret |-> "", pending |-> "", why |-> "",
     status |-> "success", calls |-> <<>>]

IdleThought ==
    [signal |-> "none", outcome |-> "none",
     response |-> Message("assistant", None, NoCalls)]

IdleRun ==
    [n |-> 0, question |-> "", status |-> "none", returned |-> <<>>,
     primary |-> "none", fallback |-> "none", escaped |-> FALSE]

\* the coroutine of a request: its call in flight, its position and locals
Context(c, p, f, a, t, r) ==
    [call |-> c, pc |-> p, frames |-> f, act |-> a, thought |-> t, run |-> r]

IdleContext == Context(IdleCall, "idle", <<>>, IdleAct, IdleThought, IdleRun)

\* the agent serves one caller
NotServing == [on |-> FALSE, switches |-> 0, ctx |-> IdleContext]

\* the agent of server.py: a second request waits to be processed
Serving == [on |-> TRUE, switches |-> 0, ctx |-> IdleContext]

InitGateway ==
    /\ call = IdleCall
    /\ agent = InitAgent("auto")
    /\ pc = "idle"
    /\ frames = <<>>
    /\ act = IdleAct
    /\ thought = IdleThought
    /\ run = IdleRun
    /\ parked = NotServing
    /\ SwarmUnused

Init ==
    /\ call = IdleCall
    /\ \E mode \in TOOL_CHOICE_VALUES : agent = InitAgent(mode)
    /\ pc = "idle"
    /\ frames = <<>>
    /\ act = IdleAct
    /\ thought = IdleThought
    /\ run = IdleRun
    /\ parked = NotServing
    /\ SwarmUnused

\* an agent configured with a second special tool
InitConfigured ==
    /\ call = IdleCall
    /\ agent = [InitAgent("auto") EXCEPT
                    !.special_tool_names = ConfiguredSpecialTools]
    /\ pc = "idle"
    /\ frames = <<>>
    /\ act = IdleAct
    /\ thought = IdleThought
    /\ run = IdleRun
    /\ parked = NotServing
    /\ SwarmUnused

\* the agent of server.py, which processes every request on the same
\* instance
InitServer ==
    /\ call = IdleCall
    /\ agent = [InitAgent("auto") EXCEPT !.max_steps = MaxStepsServed]
    /\ pc = "idle"
    /\ frames = <<>>
    /\ act = IdleAct
    /\ thought = IdleThought
    /\ run = IdleRun
    /\ parked = Serving
    /\ SwarmUnused

\* the question the summary prompts embed (toolcall.py 228-233)
OriginalQuestion(a) ==
    IF a.original_question # "" THEN a.original_question
    ELSE IF \E k \in 1..Len(a.memory) :
                a.memory[k].role = "user" /\ Truthy(a.memory[k].content)
    THEN a.memory[CHOOSE k \in 1..Len(a.memory) :
                /\ a.memory[k].role = "user" /\ Truthy(a.memory[k].content)
                /\ \A j \in 1..(k - 1) :
                     ~(a.memory[j].role = "user" /\ Truthy(a.memory[j].content))].content
    ELSE ""

SummaryCall(a) ==
    NewCall("summary", "ask",
            <<Dict("user", SummaryPrompt(OriginalQuestion(a)), Absent)>>,
            <<>>, FALSE, "auto", FALSE)

FallbackCall(a) ==
    NewCall("fallback", "ask",
            <<Dict("user", FallbackPrompt(a.original_question), Absent)>>,
            <<>>, FALSE, "auto", FALSE)

----------------------------------------------------------------------------
(* The think/act loop inherited from the base agent (app/agent/base.py,   *)
(* app/agent/react.py), modelled after its specified behaviour: run starts *)
(* the loop in RUNNING with the question in memory; each cycle is a        *)
(* think() followed, when think() signals continue, by an act(); the loop  *)
(* ends when think() signals stop, when the state is no longer RUNNING or  *)
(* when max_steps cycles have run, and leaves the agent FINISHED; an       *)
(* exception leaves it in ERROR.                                           *)

BaseRunEntry(a, q) ==
    [a EXCEPT !.memory = Append(@, user_message(q)),
              !.state = "RUNNING",
              !.current_step = 0]

LoopContinuesUnbounded(a) == a.state = "RUNNING"

LoopContinues(a) == a.current_step < a.max_steps /\ a.state = "RUNNING"

StepBegins(a) == [a EXCEPT !.current_step = @ + 1]

StateAfterStop(a) == "FINISHED"

StateAfterException(a) == "ERROR"

----------------------------------------------------------------------------
(* run(): entry and exit *)

\* run(question) up to the first think(): toolcall.py 315-320 and the entry
\* of the base agent's run
RunStart ==
    /\ pc = "idle"
    /\ call.status = "idle"
    /\ run.n < MaxRuns
    /\ \E q \in Questions(run.n + parked.ctx.run.n + 1) :
        /\ agent' = BaseRunEntry([agent EXCEPT !.original_question = q,
                                               !.tool_results = <<>>], q)
        /\ run' = [IdleRun EXCEPT !.n = run.n + 1, !.question = q,
                                  !.status = "running"]
    /\ pc' = "loop"
    /\ act' = IdleAct
    /\ thought' = IdleThought
    /\ UNCHANGED <<call, frames>>
    /\ UNCHANGED <<parked, swarmVars>>

\* the step budget is exhausted or the state is no longer RUNNING
LoopEnd ==
    /\ pc = "loop"
    /\ ~LoopContinues(agent)
    /\ agent' = [agent EXCEPT !.state = StateAfterStop(agent)]
    /\ pc' = "after"
    /\ UNCHANGED <<call, frames, act, thought, run>>
    /\ UNCHANGED <<parked, swarmVars>>

\* run() after the loop returned: toolcall.py 322-326
RunAfterLoop ==
    /\ pc = "after"
    /\ IF agent.final_summary = <<>>
       THEN /\ call' = SummaryCall(agent)
            /\ frames' = <<"run">>
            /\ pc' = "summary"
            /\ run' = run
       ELSE /\ run' = [run EXCEPT !.status = "returned",
                                  !.returned = agent.final_summary]
            /\ pc' = "idle"
            /\ UNCHANGED <<call, frames>>
    /\ UNCHANGED <<agent, act, thought>>
    /\ UNCHANGED <<parked, swarmVars>>

----------------------------------------------------------------------------
(* think() *)

\* think() up to the await of ask_tool: toolcall.py 47-60
ThinkStart ==
    /\ pc = "loop"
    /\ LoopContinues(agent)
    /\ LET mem == Append(agent.memory, user_message(NEXT_STEP_PROMPT))
       IN  /\ agent' = [StepBegins(agent) EXCEPT !.memory = mem]
           /\ call' = NewCall("think", "ask_tool", ToDicts(mem),
                              ToDicts(<<system_message(SYSTEM_PROMPT)>>),
                              TRUE, agent.tool_choices, FALSE)
    /\ pc' = "think"
    /\ thought' = IdleThought
    /\ act' = IdleAct
    /\ UNCHANGED <<frames, run>>
    /\ UNCHANGED <<parked, swarmVars>>

ThinkSignalAuto(mode, calls, content) == calls

\* the value think() returns after a response: toolcall.py 75-102
ThinkSignal(mode, calls, content) ==
    IF mode = "none" THEN content
    ELSE IF mode = "required" /\ ~calls THEN TRUE
    ELSE IF mode = "auto" /\ ~calls THEN content
    ELSE calls

\* the messages think() appends after a response: toolcall.py 80-93
ThinkAppends(mode, response) ==
    IF mode = "none"
    THEN IF Truthy(response.content)
         THEN <<assistant_message(response.content)>>
         ELSE <<>>
    ELSE IF HasCalls(response.tool_calls)
    THEN <<from_tool_calls(response.content, response.tool_calls.list)>>
    ELSE <<assistant_message(response.content)>>

\* think() after ask_tool returned: toolcall.py 61-102
ThinkReturn ==
    /\ pc = "think"
    /\ call.status = "returned"
    /\ LET response == call.value
           mode == agent.tool_choices
           signal == ThinkSignal(mode, HasCalls(response.tool_calls),
                                 Truthy(response.content))
       IN  /\ thought' = [signal |-> IF signal THEN "continue" ELSE "stop",
                          outcome |-> "ok", response |-> response]
           /\ agent' = [agent EXCEPT
                            !.tool_calls = response.tool_calls,
                            !.memory = @ \o ThinkAppends(mode, response),
                            !.state = IF signal THEN @ ELSE StateAfterStop(agent)]
           /\ pc' = IF signal THEN "act" ELSE "after"
           /\ act' = IF signal
                     THEN [IdleAct EXCEPT !.i = 1, !.outcome = "running",
                                          !.calls = response.tool_calls.list]
                     ELSE act
    /\ call' = IdleCall
    /\ UNCHANGED <<frames, run>>
    /\ UNCHANGED <<parked, swarmVars>>

\* think() after ask_tool raised: toolcall.py 111-116
ThinkRaise ==
    /\ pc = "think"
    /\ call.status = "raised"
    /\ call' = FallbackCall(agent)
    /\ frames' = <<"think">>
    /\ pc' = "fallback"
    /\ thought' = [thought EXCEPT !.outcome = "failed"]
    /\ UNCHANGED <<agent, act, run>>
    /\ UNCHANGED <<parked, swarmVars>>

----------------------------------------------------------------------------
(* act() and execute_tool() *)

\* the rest of one iteration of the loop of act(): toolcall.py 136-151
ActAbortOnFailure(n, i, failed) == IF failed THEN n + 1 ELSE i + 1

\* the for loop of act() goes on to the next command: toolcall.py 132
ActNextIndex(n, i, failed) == i + 1

CompleteTool(a, ac, obs, why) ==
    /\ agent' = [a EXCEPT
            !.tool_results = Append(@, ac.calls[ac.i].name \o ": " \o obs),
            !.memory = Append(@, tool_message(obs))]
    /\ act' = [ac EXCEPT !.results = Append(@, obs),
                         !.executed = Append(@, ac.i),
                         !.log = Append(@, why),
                         !.i = ActNextIndex(Len(ac.calls), ac.i,
                                            why \in {"raise", "rejected"}),
                         !.pending = "",
                         !.why = ""]

RunCatchesNoValueError(e) == e # TOOL_CALL_REQUIRED

\* run(): "except Exception" (toolcall.py 327) catches whatever the loop raises
RunCatches(e) == TRUE

ActNoCallsPlaceholder(a) == NO_CONTENT

\* self.messages[-1].content or "No content or commands to execute"
ActNoCallsValue(a) ==
    IF Truthy(a.memory[Len(a.memory)].content)
    THEN a.memory[Len(a.memory)].content
    ELSE NO_CONTENT

\* act() without pending tool calls: toolcall.py 124-129
ActNoCalls ==
    /\ pc = "act"
    /\ act.calls = <<>>
    /\ IF agent.tool_choices = "required" \/ Len(agent.memory) = 0
       THEN \* the exception leaves the loop and reaches run()
            LET e == IF agent.tool_choices = "required"
                     THEN TOOL_CALL_REQUIRED ELSE "IndexError"
            IN  /\ act' = [act EXCEPT !.outcome = "raised", !.ret = e]
                /\ agent' = [agent EXCEPT !.state = StateAfterException(agent)]
                /\ IF RunCatches(e)
                   THEN /\ call' = FallbackCall(agent)
                        /\ frames' = <<"run_except">>
                        /\ pc' = "fallback"
                        /\ run' = run
                   ELSE /\ run' = [run EXCEPT !.status = "raised",
                                              !.escaped = TRUE]
                        /\ pc' = "idle"
                        /\ UNCHANGED <<call, frames>>
       ELSE /\ act' = [act EXCEPT !.outcome = "returned",
                                  !.ret = ActNoCallsValue(agent)]
            /\ pc' = "loop"
            /\ UNCHANGED <<agent, call, frames, run>>
    /\ UNCHANGED thought
    /\ UNCHANGED <<parked, swarmVars>>

\* one iteration of the loop of act(), with execute_tool() up to the await
\* of the summary when the call terminates the run: toolcall.py 132-151,
\* 158-205, 207-217
ActTool ==
    /\ pc = "act"
    /\ act.calls # <<>>
    /\ act.i <= Len(act.calls)
    /\ \E outcome \in ToolOutcomes :
        LET command == act.calls[act.i]
            obs == Observation(command, outcome)
        IN  IF FinishesRun(agent, command, outcome)
            THEN /\ act' = [act EXCEPT !.pending = obs,
                                       !.why = outcome,
                                       !.status = StatusOf(command.arguments)]
                 /\ call' = SummaryCall(agent)
                 /\ frames' = <<"special">>
                 /\ pc' = "summary"
                 /\ agent' = agent
            ELSE /\ CompleteTool(agent, act, obs,
                                 IF Invoked(command) THEN outcome ELSE "rejected")
                 /\ UNCHANGED <<call, frames, pc>>
    /\ UNCHANGED <<thought, run>>
    /\ UNCHANGED <<parked, swarmVars>>

\* act() returns the joined results: toolcall.py 156
ActReturn ==
    /\ pc = "act"
    /\ act.calls # <<>>
    /\ act.i > Len(act.calls)
    /\ act' = [act EXCEPT !.outcome = "returned"]
    /\ pc' = "loop"
    /\ UNCHANGED <<agent, call, frames, thought, run>>
    /\ UNCHANGED <<parked, swarmVars>>

----------------------------------------------------------------------------
(* _generate_summary() and _generate_fallback_summary() *)

\* what the caller of _generate_summary stores in final_summary
StoredSummary(a, v) == v

\* the caller of _generate_summary takes its value v: _handle_special_tool
\* (toolcall.py 217-222, then the rest of the iteration of act) or run()
\* (toolcall.py 324-326)
SummaryContinue(a, v, frame) ==
    IF frame = "special"
    THEN /\ CompleteTool([a EXCEPT !.final_summary = StoredSummary(a, v),
                                   !.state = "FINISHED"],
                         act, act.pending, act.why)
         /\ pc' = "act"
    ELSE /\ agent' = [a EXCEPT !.final_summary = StoredSummary(a, v)]
         /\ pc' = "idle"
         /\ act' = act

\* the primary path: toolcall.py 249-264
SummaryReturn ==
    /\ pc = "summary"
    /\ call.status = "returned"
    /\ LET summary == call.value.content
           a == [agent EXCEPT !.memory =
                    Append(@, assistant_message("FINAL ANSWER: " \o summary))]
           status == IF Head(frames) = "special" THEN act.status ELSE "success"
           v == SummaryText(status, summary)
       IN  /\ SummaryContinue(a, v, Head(frames))
           /\ run' = [run EXCEPT
                        !.primary = "ok",
                        !.status = IF Head(frames) = "run" THEN "returned" ELSE @,
                        !.returned = IF Head(frames) = "run"
                                     THEN StoredSummary(a, v) ELSE @]
    /\ call' = IdleCall
    /\ frames' = <<>>
    /\ UNCHANGED thought
    /\ UNCHANGED <<parked, swarmVars>>

\* the primary path raised: toolcall.py 266-268
SummaryRaise ==
    /\ pc = "summary"
    /\ call.status = "raised"
    /\ call' = FallbackCall(agent)
    /\ frames' = <<"summary">> \o frames
    /\ pc' = "fallback"
    /\ run' = [run EXCEPT !.primary = "raised"]
    /\ UNCHANGED <<agent, act, thought>>
    /\ UNCHANGED <<parked, swarmVars>>

\* the caller of _generate_fallback_summary continues; a holds the stored
\* fallback text
StateKept(a) == a.state

\* think() marks the agent as finished: toolcall.py 119
StateAfterThinkFailure(a) == "FINISHED"

FallbackContinue(a, how) ==
    IF Head(frames) = "think"
    THEN \* think(): toolcall.py 119-120, the loop ends
         /\ agent' = [a EXCEPT !.state = StateAfterThinkFailure(a)]
         /\ thought' = [thought EXCEPT !.signal = "stop"]
         /\ pc' = "after"
         /\ run' = [run EXCEPT !.fallback = how]
         /\ act' = act
    ELSE IF Head(frames) = "run_except"
    THEN \* run(): toolcall.py 330
         /\ agent' = a
         /\ run' = [run EXCEPT !.fallback = how, !.status = "returned",
                               !.returned = a.final_summary]
         /\ pc' = "idle"
         /\ UNCHANGED <<act, thought>>
    ELSE \* _generate_summary(): toolcall.py 269
         /\ SummaryContinue(a, <<COMPLETED>>, frames[2])
         /\ run' = [run EXCEPT
                        !.fallback = how,
                        !.status = IF frames[2] = "run" THEN "returned" ELSE @,
                        !.returned = IF frames[2] = "run"
                                     THEN StoredSummary(a, <<COMPLETED>>) ELSE @]
         /\ thought' = thought

\* the fallback completion answered: toolcall.py 279-292
FallbackReturn ==
    /\ pc = "fallback"
    /\ call.status = "returned"
    /\ FallbackContinue([agent EXCEPT !.final_summary = Envelope(call.value.content)],
                        "ok")
    /\ call' = IdleCall
    /\ frames' = <<>>
    /\ UNCHANGED <<parked, swarmVars>>

\* the fallback completion raised: toolcall.py 293-301
FallbackRaise ==
    /\ pc = "fallback"
    /\ call.status = "raised"
    /\ FallbackContinue([agent EXCEPT !.final_summary =
                            Envelope(Sorry(agent.original_question))],
                        "raised")
    /\ call' = IdleCall
    /\ frames' = <<>>
    /\ UNCHANGED <<parked, swarmVars>>

----------------------------------------------------------------------------
NextGateway == CallAsk \/ CallAskTool \/ Attempt \/ CallDone

SpecGateway == InitGateway /\ [][NextGateway]_vars

\* the caller calls ask_tool once more with the message objects of the call
\* that is over
CallAgain ==
    /\ call.caller = "direct"
    /\ call.kind = "ask_tool"
    /\ call.status \in {"returned", "raised"}
    /\ call.round < MaxRounds
    /\ call' = [NewCall("direct", "ask_tool", call.messages, call.system_msgs,
                        call.tools, call.tool_choice, FALSE)
                    EXCEPT !.given = call.given, !.round = call.round + 1]
    /\ UNCHANGED <<agent, pc, frames, act, thought, run>>
    /\ UNCHANGED <<parked, swarmVars>>

NextRepeat == CallAskTool \/ CallAgain \/ Attempt \/ CallDone

SpecRepeat == InitGateway /\ [][NextRepeat]_vars

NextBackfill == CallBackfill \/ Attempt \/ CallDone

SpecBackfill == InitGateway /\ [][NextBackfill]_vars

NextDecode == CallDecode \/ Attempt \/ CallDone

SpecDecode == InitGateway /\ [][NextDecode]_vars

Next ==
    \/ RunStart \/ LoopEnd \/ RunAfterLoop
    \/ ThinkStart \/ ThinkReturn \/ ThinkRaise
    \/ ActNoCalls \/ ActTool \/ ActReturn
    \/ SummaryReturn \/ SummaryRaise
    \/ FallbackReturn \/ FallbackRaise
    \/ Attempt

Spec == Init /\ [][Next]_vars

\* the event loop resumes the coroutine of run() whenever it can go on: every
\* await of the endpoint and of a tool ends.  progress is the position of
\* the coroutine, which every step moves
progress == <<pc, frames, call.status, call.attempt, act.i, run.n, run.status>>

\* an agent of any mode with the step budget MaxStepsLive
InitLive ==
    /\ call = IdleCall
    /\ \E mode \in TOOL_CHOICE_VALUES :
            agent = [InitAgent(mode) EXCEPT !.max_steps = MaxStepsLive]
    /\ pc = "idle"
    /\ frames = <<>>
    /\ act = IdleAct
    /\ thought = IdleThought
    /\ run = IdleRun
    /\ parked = NotServing
    /\ SwarmUnused

SpecLive == InitLive /\ [][Next]_vars /\ WF_progress(Next)

SpecConfigured == InitConfigured /\ [][Next]_vars

----------------------------------------------------------------------------
(* Two requests on the one agent of server.py *)

Resume(ctx) ==
    /\ call' = ctx.call
    /\ pc' = ctx.pc
    /\ frames' = ctx.frames
    /\ act' = ctx.act
    /\ thought' = ctx.thought
    /\ run' = ctx.run

\* the request has been answered and the next one is processed on the same
\* agent: server.py 79-85, 125-131
NextRequest ==
    /\ parked.on
    /\ pc = "idle"
    /\ run.status = "returned"
    /\ parked.ctx.run.status = "none"
    /\ Resume(parked.ctx)
    /\ parked' = [parked EXCEPT
                    !.ctx = Context(call, pc, frames, act, thought, run)]
    /\ UNCHANGED <<agent, swarmVars>>

\* the coroutine awaits the endpoint and the event loop goes on with the
\* coroutine of the other request: server.py 79-85, 125-131
Suspend ==
    /\ parked.on
    /\ parked.switches < MaxSwitches
    /\ call.status = "pending"
    /\ call.attempt = 0
    /\ parked.ctx.run.status # "returned"
    /\ Resume(parked.ctx)
    /\ parked' = [parked EXCEPT
                    !.switches = @ + 1,
                    !.ctx = Context(call, pc, frames, act, thought, run)]
    /\ UNCHANGED <<agent, swarmVars>>

NextSequential == Next \/ NextRequest

SpecSequential == InitServer /\ [][NextSequential]_vars

NextServer == Next \/ NextRequest \/ Suspend

SpecServer == InitServer /\ [][NextServer]_vars

----------------------------------------------------------------------------
(* act() and execute_tool() on tool calls of any form *)

\* ToolCall objects: a name that may be empty or unknown, arguments that may
\* be no JSON
Commands ==
    [id : {"call_1"}, type : {"function"}, name : ToolNames \cup {""},
     arguments : Arguments \cup StatusArguments]

\* act() is called on an agent whose tool_calls were assigned
ActDirect ==
    /\ pc = "idle"
    /\ act.outcome = "none"
    /\ \E cs \in SeqsUpTo(Commands, MaxCalls) \ {<<>>} :
        /\ agent' = [agent EXCEPT !.tool_calls = Calls(cs), !.state = "RUNNING"]
        /\ act' = [IdleAct EXCEPT !.i = 1, !.outcome = "running", !.calls = cs]
    /\ pc' = "act"
    /\ UNCHANGED <<call, frames, thought, run>>
    /\ UNCHANGED <<parked, swarmVars>>

NextExecute ==
    \/ ActDirect \/ ActTool \/ ActReturn
    \/ SummaryReturn \/ SummaryRaise
    \/ FallbackReturn \/ FallbackRaise
    \/ Attempt

SpecExecute == InitConfigured /\ [][NextExecute]_vars

----------------------------------------------------------------------------
(* Use of a ResponseCache: any calls of get and set *)

InitCache ==
    /\ call = IdleCall
    /\ agent = InitAgent("auto")
    /\ pc = "idle"
    /\ frames = <<>>
    /\ act = IdleAct
    /\ thought = IdleThought
    /\ run = IdleRun
    /\ parked = NotServing
    /\ \E n \in 1..MaxSize : response_cache = ResponseCacheInit(n)
    /\ cache_use = CacheUnused
    /\ _instances = NoInstances
    /\ llm_use = NoLLMUse
    /\ swarm = NoSwarm

CacheGet ==
    /\ \E key \in CacheKeys :
        /\ cache_use' = [cache_use EXCEPT
                            !.op = "get", !.key = key, !.read = key,
                            !.got = get(response_cache.cache, key)]
        /\ response_cache' = [response_cache EXCEPT !.cache = AfterGet(@, key)]
    /\ UNCHANGED <<call, agent, pc, frames, act, thought, run, parked,
                   _instances, llm_use, swarm>>

CacheSet ==
    /\ cache_use.sets < MaxOps
    /\ \E key \in CacheKeys, value \in CacheValues :
        /\ response_cache' = set(response_cache, key, value)
        /\ cache_use' = [cache_use EXCEPT
                !.op = "set", !.key = key,
                !.sets = @ + 1,
                !.given[key] = value,
                !.stamps[key] = IF Inserts(response_cache, cache_use, key)
                                THEN cache_use.sets + 1 ELSE @]
    /\ UNCHANGED <<call, agent, pc, frames, act, thought, run, parked,
                   _instances, llm_use, swarm>>

NextCache == CacheGet \/ CacheSet

SpecCache == InitCache /\ [][NextCache]_vars

----------------------------------------------------------------------------
(* Constructions of LLM(config_name), and users assigning fields of the
   instance they got *)

InitSingleton ==
    /\ call = IdleCall
    /\ agent = InitAgent("auto")
    /\ pc = "idle"
    /\ frames = <<>>
    /\ act = IdleAct
    /\ thought = IdleThought
    /\ run = IdleRun
    /\ parked = NotServing
    /\ SwarmUnused

Construct ==
    /\ \E config_name \in ConfigNames :
        LET made == LLM(_instances, llm_use.allocated, config_name)
        IN  /\ _instances' = made.instances
            /\ llm_use' = [allocated |-> IF _instances[config_name].made
                                         THEN llm_use.allocated
                                         ELSE llm_use.allocated + 1,
                           op |-> "construct", name |-> config_name,
                           handle |-> made.id]
    /\ UNCHANGED <<call, agent, pc, frames, act, thought, run, parked,
                   response_cache, cache_use, swarm>>

\* llm.model = ..., llm.temperature = ... on the instance returned last
AssignFields ==
    /\ llm_use.handle # 0
    /\ \E model \in Models, temperature \in Temperatures :
        /\ _instances' = [_instances EXCEPT
                ![NameOf(_instances, llm_use.handle)].model = model,
                ![NameOf(_instances, llm_use.handle)].temperature = temperature]
        /\ llm_use' = [llm_use EXCEPT !.op = "assign"]
    /\ UNCHANGED <<call, agent, pc, frames, act, thought, run, parked,
                   response_cache, cache_use, swarm>>

NextSingleton == Construct \/ AssignFields

SpecSingleton == InitSingleton /\ [][NextSingleton]_vars

----------------------------------------------------------------------------
(* SwarmCoordinator and MultiAgentPipeline (app/swarm/coordinator.py 23-62,
   app/swarm/multi_agent_pipeline.py) *)

\* A query is the sequence of its characters.
Queries ==
    { <<"N", "a", "v", "i", "g", "a", "t", "e">>,
      <<"w", "e", "b", " ", "p", "a", "g", "e", "s">>,
      <<"w", "e", "b", "p", "a", "g", "e">>,
      <<"a", " ", "W", "e", "b", "s", "i", "t", "e">>,
      <<"h", "o", "m", "e", "p", "a", "g", "e">>,
      <<"B", "R", "O", "W", "S", "E", "R", "S">>,
      <<"t", "l", "a">> }

UpperCase ==
    [c \in {"N", "W", "B", "R", "O", "S", "E"} |->
        CASE c = "N" -> "n" [] c = "W" -> "w" [] c = "B" -> "b"
          [] c = "R" -> "r" [] c = "O" -> "o" [] c = "S" -> "s"
          [] c = "E" -> "e"]

KeepCase(q) == q

\* query.lower()
LowerAll(q) ==
    [i \in 1..Len(q) |-> IF q[i] \in DOMAIN UpperCase THEN UpperCase[q[i]]
                         ELSE q[i]]

\* keyword in text
Contains(text, keyword) ==
    \E i \in 1..(Len(text) - Len(keyword) + 1) :
        SubSeq(text, i, i + Len(keyword) - 1) = keyword

Keywords ==
    { <<"n", "a", "v", "i", "g", "a", "t", "e">>,
      <<"w", "e", "b", "s", "i", "t", "e">>,
      <<"w", "e", "b", " ", "p", "a", "g", "e">>,
      <<"h", "o", "m", "e", "p", "a", "g", "e">>,
      <<"b", "r", "o", "w", "s", "e", "r">> }

\* is_web_query (multi_agent_pipeline.py 84-85)
is_web_query ==
    [q \in Queries |-> \E keyword \in Keywords : Contains(LowerAll(q), keyword)]

QueryText == [q \in Queries |-> Str(q)]

\* str(value) inside an f-string
PyStr(v) == IF v = None THEN "None" ELSE v

\* the prompts
BrowserInstructions(q) ==
    "Navigate and extract detailed information: " \o QueryText[q]
ResearchInstructions(q) ==
    "Provide a comprehensive explanation for: " \o QueryText[q]
full_instructions(role, instructions) ==
    "Role: " \o role \o " Task: " \o instructions \o " Shared Context: "
synthesis_prompt(q, result) ==
    "Synthesize for the query: " \o QueryText[q] \o " Source Information: "
        \o PyStr(result)
FallbackQueryPrompt(q, e) ==
    "Provide a concise answer to: " \o QueryText[q]
        \o " Error occurred in multi-agent pipeline: " \o e
Unable(e) == "Unable to process query. Error: " \o e

\* ToolCollection().to_params() is empty or not
SwarmTools == BOOLEAN

\* Agent.__init__ (multi_agent_pipeline.py 12-17): the registry after it and
\* the handle the agent keeps
AgentInit(instances, allocated, model) ==
    LET made == LLM(instances, allocated, "default")
        name == NameOf(made.instances, made.id)
    IN  [instances |-> [made.instances EXCEPT ![name].model = model,
                                               ![name].temperature = "0.3"],
         id |-> made.id]

AllocatedIn(instances) == Cardinality({ n \in ConfigNames : instances[n].made })

\* MultiAgentPipeline.__init__: the agents are constructed one after the
\* other
RECURSIVE AgentsInit(_, _, _)
AgentsInit(specs, instances, handles) ==
    IF specs = <<>> THEN [instances |-> instances, handles |-> handles]
    ELSE LET a == AgentInit(instances, AllocatedIn(instances), Head(specs).model)
         IN  AgentsInit(Tail(specs), a.instances,
                        [handles EXCEPT ![Head(specs).name] =
                            [llm |-> a.id, role |-> Head(specs).role]])

\* the coordinator is constructed before or after another component has
\* constructed the default gateway
InitSwarm ==
    /\ call = IdleCall
    /\ agent = InitAgent("auto")
    /\ pc = "idle"
    /\ frames = <<>>
    /\ act = IdleAct
    /\ thought = IdleThought
    /\ run = IdleRun
    /\ parked = NotServing
    /\ response_cache = ResponseCacheInit(max_size)
    /\ cache_use = CacheUnused
    /\ \E used \in BOOLEAN :
        /\ _instances = IF used THEN LLM(NoInstances, 0, "default").instances
                        ELSE NoInstances
        /\ llm_use = [NoLLMUse EXCEPT !.allocated = IF used THEN 1 ELSE 0]
    /\ swarm = NoSwarm

\* SwarmCoordinator.__init__ (coordinator.py 24-29)
SwarmCoordinatorInit ==
    /\ ~swarm.constructed
    /\ LET made == AgentsInit(AgentSpecs, _instances, swarm.agents)
       IN  /\ _instances' = made.instances
           /\ llm_use' = [llm_use EXCEPT !.allocated = AllocatedIn(made.instances)]
           /\ swarm' = [swarm EXCEPT !.constructed = TRUE,
                                     !.agents = made.handles]
    /\ response_cache' = ResponseCacheInit(max_size)
    /\ UNCHANGED <<call, agent, pc, frames, act, thought, run, parked, cache_use>>

\* the completion call of an agent or of the coordinator
SwarmCall(who, kind, llm, prompt, tools, kwargs) ==
    [NewCall(who, kind, <<Dict("user", prompt, Absent)>>, <<>>, tools, "auto",
             FALSE) EXCEPT !.kwargs = kwargs, !.llm = llm]

\* process_query up to the completion call of the specialist task:
\* execute_workflow classifies the query, _execute_browser_task or
\* _execute_research_task calls process_task of its agent
ProcessQuery ==
    /\ swarm.constructed
    /\ swarm.pc = "idle"
    /\ swarm.n < MaxQueries
    /\ call.status = "idle"
    /\ \E q \in Queries, tools \in SwarmTools :
        LET web == is_web_query[q]
            who == IF web THEN "browser_navigator" ELSE "researcher"
            a == swarm.agents[who]
        IN  /\ swarm' = [swarm EXCEPT
                    !.pc = "task", !.n = @ + 1, !.query = q,
                    !.branch = IF web THEN "web" ELSE "research",
                    !.tasks = 1, !.task_result = "", !.syntheses = 0,
                    !.source = "", !.error = "none", !.fallbacks = 0,
                    !.outcome = "none", !.value = ""]
            /\ call' =
                IF web
                THEN SwarmCall(who, "ask_tool", a.llm,
                        full_instructions(a.role, BrowserInstructions(q)), tools,
                        {"messages", "tools", "stream", "timeout"})
                ELSE SwarmCall(who, "ask", a.llm,
                        full_instructions(a.role, ResearchInstructions(q)), FALSE,
                        {"messages", "stream", "timeout"})
    /\ UNCHANGED <<agent, pc, frames, act, thought, run, parked,
                   response_cache, cache_use, _instances, llm_use>>

\* the requests sent so far, with the model each one named
Requests(sw, c) ==
    IF c.sent > 0 THEN sw.requests \cup {[agent |-> c.caller, model |-> c.model]}
    ELSE sw.requests

ProcessTaskLetsThrough(e) == FALSE

\* except Exception (multi_agent_pipeline.py 59)
ProcessTaskCatches(e) == TRUE

\* result.content if hasattr(result, 'content') else str(result): the content
\* of the Message of ask_tool, the str of ask
ContentOf(c) == c.value.content

\* what _execute_browser_task / _execute_research_task return
TaskResult(c, branch) ==
    IF c.status = "returned" THEN ContentOf(c)
    ELSE IF ProcessTaskCatches(c.error) THEN "Error: " \o c.error
    ELSE IF branch = "web" THEN "Error in browser navigation: " \o c.error
    ELSE "Error in research: " \o c.error

\* the specialist task is over and _synthesize_results makes its call
TaskDone ==
    /\ swarm.pc = "task"
    /\ call.status \in {"returned", "raised"}
    /\ LET result == TaskResult(call, swarm.branch)
           a == swarm.agents["synthesizer"]
       IN  /\ swarm' = [swarm EXCEPT
                    !.pc = "synthesis", !.task_result = result,
                    !.syntheses = @ + 1, !.source = result,
                    !.requests = Requests(swarm, call)]
           /\ call' = SwarmCall("synthesizer", "ask", a.llm,
                        synthesis_prompt(swarm.query, result), FALSE,
                        {"messages", "stream", "temperature"})
    /\ UNCHANGED <<agent, pc, frames, act, thought, run, parked,
                   response_cache, cache_use, _instances, llm_use>>

ProcessQueryLetsThrough(e) == FALSE

\* except Exception (coordinator.py 45)
ProcessQueryCatches(e) == TRUE

\* the synthesis call is over: process_query returns its answer, or
\* execute_workflow re-raises and process_query makes the fallback call
SynthesisDone ==
    /\ swarm.pc = "synthesis"
    /\ call.status \in {"returned", "raised"}
    /\ IF call.status = "returned"
       THEN /\ swarm' = [swarm EXCEPT
                    !.pc = "idle", !.outcome = "returned",
                    !.value = PyStr(call.value.content),
                    !.requests = Requests(swarm, call)]
            /\ call' = IdleCall
            /\ UNCHANGED <<_instances, llm_use>>
       ELSE IF ProcessQueryCatches(call.error)
       THEN LET made == LLM(_instances, llm_use.allocated, "default")
            IN  /\ _instances' = made.instances
                /\ llm_use' = [llm_use EXCEPT
                        !.allocated = AllocatedIn(made.instances)]
                /\ swarm' = [swarm EXCEPT
                        !.pc = "fallback", !.error = call.error,
                        !.fallbacks = @ + 1,
                        !.requests = Requests(swarm, call)]
                /\ call' = SwarmCall("fallback", "ask", made.id,
                            FallbackQueryPrompt(swarm.query, call.error), FALSE,
                            {"messages", "stream"})
       ELSE /\ swarm' = [swarm EXCEPT
                    !.pc = "idle", !.outcome = "raised", !.error = call.error,
                    !.requests = Requests(swarm, call)]
            /\ call' = IdleCall
            /\ UNCHANGED <<_instances, llm_use>>
    /\ UNCHANGED <<agent, pc, frames, act, thought, run, parked,
                   response_cache, cache_use>>

\* the fallback call is over (coordinator.py 59-62)
FallbackDone ==
    /\ swarm.pc = "fallback"
    /\ call.status \in {"returned", "raised"}
    /\ swarm' = [swarm EXCEPT
            !.pc = "idle", !.outcome = "returned",
            !.value = IF call.status = "returned" THEN call.value.content
                      ELSE Unable(swarm.error),
            !.requests = Requests(swarm, call)]
    /\ call' = IdleCall
    /\ UNCHANGED <<agent, pc, frames, act, thought, run, parked,
                   response_cache, cache_use, _instances, llm_use>>

NextSwarm ==
    \/ SwarmCoordinatorInit
    \/ ProcessQuery
    \/ Attempt
    \/ TaskDone
    \/ SynthesisDone
    \/ FallbackDone

SpecSwarm == InitSwarm /\ [][NextSwarm]_vars

----------------------------------------------------------------------------
(* Properties *)

TextNonEmpty(t) == \E i \in 1..Len(t) : t[i] # ""

\* the text holds the opening marker, a body and the closing marker
Enveloped(t) ==
    \E i \in 1..Len(t) :
        /\ i + 2 <= Len(t)
        /\ t[i] = "===== FINAL ANSWER ====="
        /\ t[i + 2] = "======================="

BadMessage(m) ==
    \/ m.role = Absent
    \/ m.role \notin {"system", "user", "assistant", "tool"}
    \/ (m.content = Absent /\ m.tool_calls = Absent)

\* the call in flight was given a message or a tool_choice that is not valid
InvalidCall(c) ==
    /\ c.status # "idle"
    /\ \/ \E i \in 1..Len(c.messages) : BadMessage(c.messages[i])
       \/ \E i \in 1..Len(c.system_msgs) : BadMessage(c.system_msgs[i])
       \/ (c.kind = "ask_tool" /\ c.tool_choice \notin {"none", "auto", "required"})

\* C1: every run() that has ended has returned a non-empty text; no
\* exception of the loop, of the tools or of the endpoint leaves run().
C1_RunAlwaysAnswers ==
    (run.n > 0 /\ pc = "idle") =>
        /\ run.status = "returned"
        /\ ~run.escaped
        /\ TextNonEmpty(run.returned)

\* act() raised, the fallback completion failed on every attempt, and run()
\* still returned
C1_Witness ==
    /\ pc = "idle"
    /\ run.status = "returned"
    /\ act.outcome = "raised"
    /\ run.fallback = "raised"

\* C2: every text run() returns, and the final_summary it leaves, is wrapped
\* in the FINAL ANSWER envelope, also when the primary summary call raised.
C2_AlwaysEnveloped ==
    run.status = "returned" =>
        /\ Enveloped(run.returned)
        /\ Enveloped(agent.final_summary)

\* C3: a completion call makes at most 6 attempts; the attempt that succeeds
\* is the last one, its result is what the caller receives, and a call that
\* has returned makes no further attempt.
C3_RetryUntilSuccess ==
    [][ /\ call'.attempt <= 6
        /\ (call.status = "pending" /\ call'.status = "returned") =>
              /\ call'.attempt = call.attempt + 1
              /\ call'.sent = call'.attempt
              /\ IF call'.kind = "ask"
                 THEN call'.value = TextValue(call'.resp.text)
                 ELSE call'.value = AskToolDecode(call', call'.resp)
        /\ call.status = "returned" =>
              \/ call' = call
              \/ call'.status = "idle" ]_vars

\* five attempts failed and the sixth succeeded
C3_Witness ==
    /\ call.caller = "direct"
    /\ call.status = "returned"
    /\ call.attempt = 6
    /\ call.sent = 6
    /\ call.kind = "ask_tool"
    /\ ~call.value.tool_calls.none

\* C4: when every attempt fails, the error the caller gets is the
\* communication error of the last attempt.
C4_SurfacesLastError ==
    (call.status = "raised" /\ call.last = "ConnectError") =>
        call.error = "ConnectError"

\* C5: a call given an invalid message or an invalid tool_choice never sends
\* a request to the endpoint.
C5_NoRequestForInvalid ==
    InvalidCall(call) => call.sent = 0

\* an invalid call has used up its attempts without a request
C5_Witness ==
    /\ InvalidCall(call)
    /\ call.status = "raised"
    /\ call.attempt = 6
    /\ call.sent = 0

\* C6: a validation failure is not retried and surfaces as a validation
\* error, not as the error of an exhausted call.
C6_FailFast ==
    InvalidCall(call) =>
        /\ call.attempt <= 1
        /\ call.status = "raised" => call.error = "ValueError"

\* the texts _generate_fallback_summary can store for a question
FallbackTexts(q) ==
    { <<"===== FINAL ANSWER =====", t, "=======================">> :
        t \in { "", Answer(q \o " Keep your answer simple and under 150 words."),
                Sorry(q) } }

\* C7: after think() met a failed ask_tool it has not raised, final_summary
\* holds a fallback text for the original question, the state is FINISHED
\* and the signal is stop.
C7_ThinkFailureStops ==
    (thought.outcome = "failed" /\ pc \notin {"think", "fallback"}) =>
        /\ thought.signal = "stop"
        /\ agent.state = "FINISHED"
        /\ agent.final_summary \in FallbackTexts(agent.original_question)
        /\ run.status # "raised"

C7_Witness ==
    /\ thought.outcome = "failed"
    /\ thought.signal = "stop"
    /\ pc = "after"
    /\ run.fallback = "ok"

\* C8: the signal of think() after a response is a function of the mode and
\* of the presence of calls and content: AUTO stops iff neither is present,
\* REQUIRED always continues, NONE continues iff content is present.
C8_ThinkSignalTable ==
    thought.outcome = "ok" =>
        LET calls == HasCalls(thought.response.tool_calls)
            content == Truthy(thought.response.content)
            mode == agent.tool_choices
        IN  /\ mode = "auto" => (thought.signal = "stop" <=> (~calls /\ ~content))
            /\ mode = "required" => thought.signal = "continue"
            /\ mode = "none" => (thought.signal = "continue" <=> content)
            /\ (calls /\ mode \in {"auto", "required"}) => thought.signal = "continue"
            /\ thought.signal \in {"stop", "continue"}

C8_Witness ==
    /\ thought.outcome = "ok"
    /\ agent.tool_choices = "required"
    /\ ~HasCalls(thought.response.tool_calls)
    /\ thought.signal = "continue"

\* C9: act() without pending calls raises TOOL_CALL_REQUIRED under REQUIRED;
\* under the other modes it raises nothing and returns the content of the
\* last message, or the placeholder when that content is empty.
C9_ActWithoutCalls ==
    [][ (pc = "act" /\ ~HasCalls(agent.tool_calls) /\ Len(agent.memory) > 0
            /\ act'.outcome \in {"returned", "raised"}) =>
        IF agent.tool_choices = "required"
        THEN /\ act'.outcome = "raised"
             /\ act'.ret = "Tool calls required but none provided"
        ELSE /\ act'.outcome = "returned"
             /\ act'.ret = IF agent.memory[Len(agent.memory)].content \in {None, ""}
                           THEN "No content or commands to execute"
                           ELSE agent.memory[Len(agent.memory)].content ]_vars

C9_Witness ==
    /\ act.outcome = "returned"
    /\ ~HasCalls(agent.tool_calls)
    /\ agent.tool_choices = "auto"
    /\ act.ret = Answer(NEXT_STEP_PROMPT)

Iota(n) == [k \in 1..n |-> k]

ErrorStrings ==
    { "Error: Unknown tool '" \o n \o "'" : n \in ToolNames }
        \cup { "Error: Tool '" \o n \o "' encountered a problem" : n \in ToolNames }
        \cup { "Error: Error parsing arguments for " \o n \o ": Invalid JSON format" :
                 n \in ToolNames }
        \cup { "Error: Invalid command format" }

\* C10: in one act() step the pending calls are executed once each, in call
\* order, whatever the earlier calls did; the results are one segment per
\* call in call order, and the segment of a failed call is an error string.
C10_AllCallsExecuted ==
    (HasCalls(agent.tool_calls) /\ act.outcome \in {"running", "returned"}) =>
        LET n == Len(agent.tool_calls.list)
            done == Len(act.executed)
        IN  /\ act.executed = Iota(done)
            /\ Len(act.results) = done
            /\ Len(act.log) = done
            /\ done <= n
            /\ act.outcome = "returned" => done = n
            /\ \A k \in 1..done :
                /\ act.results[k] \in
                     { Observation(agent.tool_calls.list[k], o) : o \in ToolOutcomes }
                /\ act.log[k] \in {"raise", "rejected"} =>
                     act.results[k] \in ErrorStrings

\* the first of two calls failed and the second was executed
C10_Witness ==
    /\ act.outcome = "returned"
    /\ HasCalls(agent.tool_calls)
    /\ Len(agent.tool_calls.list) = 2
    /\ act.executed = <<1, 2>>
    /\ act.log = <<"raise", "output">>

\* C11: when a terminate call was executed successfully and the primary
\* summary call answers, the state becomes FINISHED and the stored summary
\* names the status of the call's arguments, or success when they carry none.
C11_TerminateStatus ==
    [][ (pc = "summary" /\ frames = <<"special">> /\ call.status = "returned") =>
        LET arguments == agent.tool_calls.list[act.i].arguments
            s == IF arguments \in {"{\"status\": \"failure\"}",
                                   "{\"status\":\"failure\"}"}
                 THEN "failure" ELSE "success"
        IN  /\ agent'.state = "FINISHED"
            /\ Len(agent'.final_summary) = 4
            /\ agent'.final_summary[1] =
                  "The interaction has been completed with status: " \o s
            /\ agent'.final_summary[3] = call.value.content ]_vars

\* a terminate call with status failure has been summarised
C11_Witness ==
    /\ agent.state = "FINISHED"
    /\ run.primary = "ok"
    /\ pc = "act"
    /\ Len(agent.final_summary) = 4
    /\ agent.final_summary[1] =
          "The interaction has been completed with status: failure"

\* C12: once the state is FINISHED no further tool is invoked in that run,
\* the calls that follow a terminating call in the same act() included.
C12_FinishedIsTerminal ==
    [][ (agent.state = "FINISHED" /\ run.status = "running") =>
          ~ /\ Len(act'.log) > Len(act.log)
            /\ act'.log[Len(act'.log)] # "rejected" ]_vars

\* C13: after a tool named in the configured special-tool list was executed
\* successfully, a final summary is stored and the state is FINISHED.
C13_EverySpecialToolFinishes ==
    \A k \in 1..Len(act.log) :
        (/\ act.log[k] \in {"output", "empty"}
         /\ agent.tool_calls.list[act.executed[k]].name
                \in agent.special_tool_names) =>
            /\ agent.state = "FINISHED"
            /\ agent.final_summary # <<>>

\* C14: under NONE think() keeps no tool call and act() executes nothing:
\* it returns the content of the response, also when the response text
\* carries tool calls.
C14_NoToolUnderNone ==
    agent.tool_choices = "none" =>
        /\ act.executed = <<>>
        /\ act.log = <<>>
        /\ ~HasCalls(agent.tool_calls)
        /\ "special" \notin { frames[k] : k \in 1..Len(frames) }
        /\ thought.outcome = "ok" => thought.response.tool_calls.none
        /\ act.outcome = "returned" =>
              /\ act.ret = thought.response.content
              /\ act.ret \notin {None, ""}

\* the model answered with a tool_calls object under NONE and act() returned
\* that text
C14_Witness ==
    /\ agent.tool_choices = "none"
    /\ act.outcome = "returned"
    /\ act.ret = "{tool_calls}"

\* C17: the decoding of the response text raises nothing: no attempt of
\* ask_tool ends in an error of the decoding.
C17_DecodeNeverRaises ==
    call.last \notin {"TypeError", "KeyError"}

\* C18: a response without parsable JSON, or whose JSON object has no
\* tool_calls, comes back as an assistant message holding the whole raw text
\* and no tool calls; a fenced block is what is parsed when the text has one.
C18_PlainTextFallback ==
    (/\ call.caller = "decode" /\ call.status = "returned"
     /\ call.tools /\ call.tool_choice # "none") =>
        LET raw == call.resp
        IN  /\ (raw.form = "plain" /\ raw.block \in {"absent", "plain"}) =>
                  call.value = [role |-> "assistant", content |-> raw.text,
                                tool_calls |-> NoCalls]
            /\ (IF raw.block = "absent" THEN raw.form ELSE raw.block) = "object" =>
                  call.value = [role |-> "assistant", content |-> raw.text,
                                tool_calls |-> NoCalls]
            /\ (/\ raw.block = "json"
                /\ \A i \in 1..Len(raw.calls) : raw.calls[i].shape = "call") =>
                  /\ ~call.value.tool_calls.none
                  /\ Len(call.value.tool_calls.list) = Len(raw.calls)

\* a text whose fenced block holds an object without tool_calls came back
\* whole, as content
C18_Witness ==
    /\ call.caller = "decode"
    /\ call.status = "returned"
    /\ call.tools
    /\ call.tool_choice = "auto"
    /\ call.resp.block = "object"
    /\ call.value.tool_calls.none
    /\ call.value.content = call.resp.text

\* C19: the arguments of a decoded call that the model wrote as valid JSON
\* are returned as the model wrote them.
C19_ValidArgumentsKept ==
    (call.caller = "decode" /\ call.status = "returned"
        /\ ~call.value.tool_calls.none) =>
        \A i \in 1..Len(call.value.tool_calls.list) :
            call.resp.calls[i].arguments
                \in {"{}", "{\"status\": \"failure\"}", "{\"status\":\"failure\"}"}
            => call.value.tool_calls.list[i].arguments
                  = call.resp.calls[i].arguments

C19_Witness ==
    /\ call.caller = "decode"
    /\ call.status = "returned"
    /\ ~call.value.tool_calls.none
    /\ Len(call.value.tool_calls.list) = 2
    /\ call.resp.calls[2].arguments = "{\"status\":\"failure\"}"
    /\ call.value.tool_calls.list[2].arguments = "{\"status\":\"failure\"}"

\* the items of the lines of key and value, keys and values trimmed
RECURSIVE TrimmedItems(_, _)
TrimmedItems(lines, d) ==
    IF lines = <<>> THEN d
    ELSE IF \E i \in 1..Len(Head(lines)) : Head(lines)[i] = ":"
    THEN LET line == Head(lines)
             c == CHOOSE i \in 1..Len(line) :
                    line[i] = ":" /\ \A j \in 1..(i - 1) : line[j] # ":"
             k == Str(Strip(SubSeq(line, 1, c - 1)))
             v == Str(Strip(SubSeq(line, c + 1, Len(line))))
         IN  TrimmedItems(Tail(lines), Put(d, k, v))
    ELSE TrimmedItems(Tail(lines), d)

RECURSIVE JoinCompact(_)
JoinCompact(items) ==
    IF items = <<>> THEN ""
    ELSE "\"" \o items[1][1] \o "\":\"" \o items[1][2] \o "\""
            \o (IF Len(items) > 1 THEN "," ELSE "") \o JoinCompact(Tail(items))

\* the JSON encodings of a mapping, with and without blanks after the
\* separators
Encodings(items) ==
    { "{" \o JoinCompact(items) \o "}", "{" \o JoinItems(items) \o "}" }

\* C20: arguments that are not JSON but lines of key and value come back as
\* the JSON encoding of the mapping from each trimmed key to its trimmed
\* value.
C20_KeyValueRecovered ==
    (call.caller = "decode" /\ call.status = "returned"
        /\ ~call.value.tool_calls.none) =>
        \A i \in 1..Len(call.value.tool_calls.list) :
            \A ts \in NonJsonTexts :
                (/\ Str(ts) = call.resp.calls[i].arguments
                 /\ \A n \in 1..Len(Split(Strip(ts), "\n")) :
                      \E m \in 1..Len(Split(Strip(ts), "\n")[n]) :
                          Split(Strip(ts), "\n")[n][m] = ":") =>
                call.value.tool_calls.list[i].arguments
                    \in Encodings(TrimmedItems(Split(Strip(ts), "\n"), <<>>))

\* C15: a run whose loop ended without a summary having been generated
\* during that run generates one, for its own question, before it returns.
C15_SummaryPerRun ==
    [][ (/\ pc = "after" /\ pc' # "after"
         /\ run.primary = "none" /\ run.fallback = "none") =>
            /\ pc' = "summary"
            /\ call'.messages =
                  <<[role |-> "user",
                     content |-> SummaryPrompt(run.question),
                     tool_calls |-> Absent]>> ]_vars

\* C16: while a request is being processed the agent holds the question of
\* that request: no other request has overwritten it.
C16_NoSharedConversation ==
    run.status = "running" => agent.original_question = run.question

\* the text has no line of key and value: none of its lines holds a colon
NoKeyValueLine(ts) ==
    \A n \in 1..Len(Split(Strip(ts), "\n")) :
        \A m \in 1..Len(Split(Strip(ts), "\n")[n]) :
            Split(Strip(ts), "\n")[n][m] # ":"

\* C21: a decoded call whose arguments are neither JSON nor lines of key and
\* value is returned with the arguments string the model wrote, so that
\* execute_tool does not invoke the tool for it.
C21_UnrecoverableArgumentsKept ==
    (call.caller = "decode" /\ call.status = "returned"
        /\ ~call.value.tool_calls.none) =>
        \A i \in 1..Len(call.value.tool_calls.list) :
            \A ts \in NonJsonTexts :
                (Str(ts) = call.resp.calls[i].arguments /\ NoKeyValueLine(ts)) =>
                    /\ call.value.tool_calls.list[i].arguments
                          = call.resp.calls[i].arguments
                    /\ ~Invoked(call.value.tool_calls.list[i])

\* the keys that have been inserted so far
InsertedKeys == { k \in CacheKeys : cache_use.stamps[k] > 0 }

\* the step is a call of set()
SetStep == cache_use'.op = "set" /\ cache_use'.sets = cache_use.sets + 1

\* the step is a call of get()
GetStep == cache_use'.op = "get" /\ cache_use'.sets = cache_use.sets

\* C22: a set of a new key into a full cache evicts exactly the key inserted
\* earliest and keeps every other key with its value; after N+1 distinct
\* keys were set into an empty cache of capacity N the first one is absent
\* and the N later ones are present with their values.
C22_FirstInsertedEvicted ==
    /\ [](  (/\ cache_use.sets = response_cache.max_size + 1
             /\ Cardinality(InsertedKeys) = response_cache.max_size + 1) =>
                \A k \in InsertedKeys :
                    IF cache_use.stamps[k] = 1
                    THEN k \notin KeysOf(response_cache.cache)
                    ELSE get(response_cache.cache, k) = cache_use.given[k] )
    /\ [][ (/\ SetStep
            /\ cache_use'.key \notin KeysOf(response_cache.cache)
            /\ AtCapacity(response_cache)) =>
               /\ KeysOf(response_cache'.cache)
                    = (KeysOf(response_cache.cache)
                          \ {EarliestInserted(response_cache, cache_use)})
                        \cup {cache_use'.key}
               /\ \A k \in KeysOf(response_cache'.cache) :
                    get(response_cache'.cache, k) = cache_use'.given[k] ]_vars

C22_Witness ==
    /\ response_cache.max_size = MaxSize
    /\ cache_use.sets = MaxSize + 1
    /\ Cardinality(InsertedKeys) = MaxSize + 1
    /\ Len(response_cache.cache) = MaxSize
    /\ \E k \in InsertedKeys :
            cache_use.stamps[k] = 1 /\ k \notin KeysOf(response_cache.cache)

\* C23: get() leaves the cache, the order of its keys included, as it is,
\* and a set() on a full cache removes the key inserted earliest, however
\* recently that key was read.
C23_FifoNotLru ==
    [][ /\ GetStep => response_cache' = response_cache
        /\ (SetStep /\ AtCapacity(response_cache)) =>
              \/ EarliestInserted(response_cache, cache_use)
                    \notin KeysOf(response_cache'.cache)
              \/ EarliestInserted(response_cache, cache_use) = cache_use'.key ]_vars

\* the key read last, and found, is the one the set() that followed evicted
C23_Witness ==
    /\ cache_use.op = "set"
    /\ cache_use.read \in InsertedKeys
    /\ cache_use.got # None
    /\ cache_use.read \notin KeysOf(response_cache.cache)
    /\ Len(response_cache.cache) = response_cache.max_size
    /\ response_cache.max_size > 1

\* C28: every config name has at most one gateway instance: the first
\* LLM(name) creates it and initialises it once from the settings of the
\* name, every later LLM(name) returns that instance and leaves its fields
\* as they are.
C28_OneInstancePerName ==
    /\ [](\A n \in ConfigNames :
            /\ _instances[n].made => _instances[n].inits = 1
            /\ \A o \in ConfigNames :
                (_instances[n].made /\ _instances[o].made /\ n # o)
                    => _instances[n].id # _instances[o].id)
    /\ [][ llm_use'.op = "construct" =>
            LET n == llm_use'.name
            IN  /\ llm_use'.handle = _instances'[n].id
                /\ \A o \in ConfigNames \ {n} : _instances'[o] = _instances[o]
                /\ IF _instances[n].made
                   THEN /\ _instances'[n] = _instances[n]
                        /\ llm_use'.allocated = llm_use.allocated
                   ELSE /\ _instances'[n].made
                        /\ _instances'[n].model = Settings(n).model
                        /\ _instances'[n].temperature = Settings(n).temperature
                        /\ llm_use'.allocated = llm_use.allocated + 1 ]_vars

\* a later construction returned the instance with the fields its user had
\* assigned
C28_Witness ==
    /\ llm_use.op = "construct"
    /\ llm_use.allocated = 2
    /\ _instances[llm_use.name].made
    /\ _instances[llm_use.name].id = llm_use.handle
    /\ _instances[llm_use.name].model = "mistral:latest"
    /\ _instances[llm_use.name].inits = 1

\* the text of the one user message of the call in flight
UserPrompt == call.messages[1].content

\* C24: process_query never raises: when the pipeline raised, one direct
\* completion call is made whose prompt holds the query and the error, its
\* answer is what process_query returns, and when that call fails the fixed
\* text with the error of the pipeline is returned.
C24_AlwaysAResponse ==
    /\ [](/\ swarm.outcome # "raised"
          /\ swarm.pc = "fallback" =>
                /\ swarm.fallbacks = 1
                /\ swarm.error # "none"
                /\ call.caller = "fallback"
                /\ call.kind = "ask"
                /\ Len(call.messages) = 1
                /\ UserPrompt = FallbackQueryPrompt(swarm.query, swarm.error))
    /\ [][ /\ (swarm.pc = "synthesis" /\ swarm'.pc # "synthesis") =>
                IF call.status = "raised"
                THEN swarm'.pc = "fallback" /\ swarm'.error = call.error
                ELSE swarm'.outcome = "returned"
           /\ (swarm.pc = "fallback" /\ swarm'.pc # "fallback") =>
                /\ swarm'.outcome = "returned"
                /\ swarm'.value = IF call.status = "returned"
                                  THEN call.value.content
                                  ELSE Unable(swarm.error) ]_vars

\* the pipeline and the fallback call both failed
C24_Witness ==
    /\ swarm.outcome = "returned"
    /\ swarm.fallbacks = 1
    /\ swarm.error = "RetryError"
    /\ swarm.value = "Unable to process query. Error: RetryError"

\* the queries that hold one of the keywords navigate, website, web page,
\* homepage, browser once they are in lower case
WebQueries ==
    { <<"N", "a", "v", "i", "g", "a", "t", "e">>,
      <<"w", "e", "b", " ", "p", "a", "g", "e", "s">>,
      <<"a", " ", "W", "e", "b", "s", "i", "t", "e">>,
      <<"h", "o", "m", "e", "p", "a", "g", "e">>,
      <<"B", "R", "O", "W", "S", "E", "R", "S">> }

\* C25: execute_workflow runs one specialist task, the browser task exactly
\* for the queries that hold a keyword in lower case and the research task
\* otherwise, then makes the synthesis call on what the task gave, whether
\* the task failed or not; a failure of the synthesis call leaves
\* execute_workflow as an exception.
C25_OneTaskThenSynthesis ==
    /\ [](/\ swarm.pc # "idle" => swarm.tasks = 1
          /\ swarm.pc = "task" =>
                /\ swarm.syntheses = 0
                /\ call.caller = IF swarm.query \in WebQueries
                                 THEN "browser_navigator" ELSE "researcher"
          /\ swarm.pc = "synthesis" =>
                /\ swarm.syntheses = 1
                /\ call.caller = "synthesizer"
                /\ UserPrompt = synthesis_prompt(swarm.query, swarm.task_result))
    /\ [][ /\ (swarm.pc = "task" /\ swarm'.pc # "task") =>
                /\ swarm'.pc = "synthesis"
                /\ call.status = "returned" =>
                        swarm'.task_result = ContentOf(call)
           /\ (swarm.pc = "synthesis" /\ swarm'.pc # "synthesis"
                    /\ call.status = "raised") =>
                /\ swarm'.error = call.error
                /\ swarm'.outcome # "returned" ]_vars

\* the browser task of a query with a capital letter failed and the
\* synthesis call is made
C25_Witness ==
    /\ swarm.pc = "synthesis"
    /\ swarm.query = <<"N", "a", "v", "i", "g", "a", "t", "e">>
    /\ swarm.branch = "web"
    /\ swarm.task_result = "Error: RetryError"
    /\ call.caller = "synthesizer"

\* C26: process_task does not raise: when its completion call failed it
\* returns the text "Error: " followed by the error, and the workflow goes
\* on to the synthesis.
C26_TaskFailureInline ==
    [][ (swarm.pc = "task" /\ swarm'.pc # "task" /\ call.status = "raised") =>
            /\ swarm'.task_result = "Error: " \o call.error
            /\ swarm'.source = swarm'.task_result
            /\ swarm'.pc = "synthesis"
            /\ call'.caller = "synthesizer"
            /\ call'.status = "pending" ]_vars

\* the research task failed, without a request having been sent, and the
\* synthesis call is in flight
C26_Witness ==
    /\ swarm.pc = "synthesis"
    /\ swarm.branch = "research"
    /\ swarm.task_result = "Error: RetryError"
    /\ call.caller = "synthesizer"
    /\ call.status = "pending"

\* the model identifier the pipeline gives each agent
ModelGiven ==
    [a \in AgentNames |->
        AgentSpecs[CHOOSE i \in 1..Len(AgentSpecs) : AgentSpecs[i].name = a].model]

\* C27: once the pipeline is constructed its agents hold three different
\* gateways, every request of an agent names the model given to that agent,
\* and the default gateway has the model and temperature of its settings.
C27_OwnGatewayPerAgent ==
    swarm.constructed =>
        /\ \A a, b \in AgentNames :
                a # b => swarm.agents[a].llm # swarm.agents[b].llm
        /\ \A r \in swarm.requests :
                r.agent \in AgentNames => r.model = ModelGiven[r.agent]
        /\ _instances["default"].made =>
                /\ _instances["default"].model = Settings("default").model
                /\ _instances["default"].temperature
                        = Settings("default").temperature

\* C29: every message in the memory of the agent has a content that is not
\* empty or at least one tool call.
C29_MessagesCarrySomething ==
    \A i \in 1..Len(agent.memory) :
        \/ Truthy(agent.memory[i].content)
        \/ HasCalls(agent.memory[i].tool_calls)

\* C30: run() starts at most max_steps think/act cycles; when the budget is
\* used up the loop ends with the agent FINISHED and run() goes on to its
\* summary; every run() that has started returns.
C30_RunTerminates ==
    /\ [](agent.current_step <= agent.max_steps)
    /\ [][ (/\ pc = "loop" /\ pc' # "loop"
            /\ agent.current_step = agent.max_steps
            /\ agent.state = "RUNNING") =>
                /\ pc' = "after"
                /\ agent'.state = "FINISHED"
                /\ agent'.current_step = agent.current_step
                /\ ~run'.escaped ]_vars
    /\ (run.status = "running") ~> (run.status = "returned")

\* the run returned after max_steps cycles whose last one was still going on
C30_Witness ==
    /\ run.status = "returned"
    /\ agent.current_step = agent.max_steps
    /\ agent.max_steps = MaxStepsLive
    /\ agent.state = "FINISHED"
    /\ thought.signal = "continue"
    /\ act.outcome = "returned"

\* C36: a cache of capacity N >= 1 never holds more than N entries; right
\* after set(k, v) get(k) is v; get(k) is the value of the latest set(k, .)
\* while k is in the cache and None when it is not; a key leaves the cache
\* only by the eviction of a set() on a full cache.
C36_BoundedAndLatestValue ==
    /\ [](response_cache.max_size >= 1 =>
            /\ Len(response_cache.cache) <= response_cache.max_size
            /\ Cardinality(KeysOf(response_cache.cache))
                  = Len(response_cache.cache)
            /\ \A k \in CacheKeys :
                  get(response_cache.cache, k)
                    = IF k \in KeysOf(response_cache.cache)
                      THEN cache_use.given[k] ELSE None)
    /\ [][ /\ SetStep =>
                get(response_cache'.cache, cache_use'.key)
                    = cache_use'.given[cache_use'.key]
           /\ GetStep =>
                cache_use'.got
                    = IF cache_use'.key \in KeysOf(response_cache.cache)
                      THEN cache_use.given[cache_use'.key] ELSE None
           /\ \A k \in KeysOf(response_cache.cache)
                        \ KeysOf(response_cache'.cache) :
                /\ SetStep
                /\ AtCapacity(response_cache)
                /\ k = oldest_key(response_cache.cache) ]_vars

\* a full cache of the largest capacity after more sets than it holds, where
\* the last get() found the latest of two values set for its key and another
\* key has been evicted
C36_Witness ==
    /\ response_cache.max_size = MaxSize
    /\ Len(response_cache.cache) = MaxSize
    /\ cache_use.sets > MaxSize
    /\ cache_use.op = "get"
    /\ cache_use.got # None
    /\ cache_use.got = cache_use.given[cache_use.read]
    /\ cache_use.sets > cache_use.stamps[cache_use.read]
    /\ \E k \in InsertedKeys : get(response_cache.cache, k) = None

\* C37: set(k, v) for a key that is in the cache leaves the set of keys and
\* the value of every other key as they are.
C37_UpdateKeepsOtherEntries ==
    [][ (SetStep /\ cache_use'.key \in KeysOf(response_cache.cache)) =>
            /\ KeysOf(response_cache'.cache) = KeysOf(response_cache.cache)
            /\ \A k \in KeysOf(response_cache.cache) \ {cache_use'.key} :
                  get(response_cache'.cache, k)
                    = get(response_cache.cache, k) ]_vars

\* C34: the task of the research branch makes a plain completion call that
\* sends a request to the endpoint, and when the endpoint answered with a
\* text the result of the task is that text.
C34_ResearchTaskAsksEndpoint ==
    [][ (swarm.pc = "task" /\ swarm'.pc # "task"
            /\ swarm.branch = "research") =>
            /\ call.kind = "ask"
            /\ call.sent > 0
            /\ call.status = "returned" =>
                    swarm'.task_result = call.resp.text ]_vars

\* the step is an attempt of ask_tool that sends its request
SendsToolRequest ==
    call.kind = "ask_tool" /\ call'.sent = call.sent + 1

\* C31: with tools and a mode other than none every request of ask_tool
\* holds the messages the caller wrote with the addendum once, at the end of
\* the first system message or, without one, as a new first message; with
\* mode none or without tools it holds them as written; the caller's
\* messages stay as written.
C31_AddendumExactlyOnce ==
    [][ SendsToolRequest =>
            /\ call'.payload = IF AddsInstructions(call)
                               THEN WithInstructions(call.given)
                               ELSE call.given
            /\ call'.system_msgs \o call'.messages = call.given ]_vars

\* C32: when ask_tool returns the decoded tool calls, the Message has one
\* call for every entry of the tool_calls array, in the order of the array,
\* each with an id and a type: the id of the entry or, if it had none, one
\* generated at this decoding, the type of the entry or, if it had none,
\* "function".
C32_IdAndTypeBackfilled ==
    (/\ call.caller = "backfill"
     /\ call.status = "returned"
     /\ Decodes(call)
     /\ Parsed(call.resp) = "json") =>
        LET raw == call.resp.calls
            out == call.value.tool_calls.list
        IN  /\ ~call.value.tool_calls.none
            /\ Len(out) = Len(raw)
            /\ \A i \in 1..Len(raw) :
                /\ out[i].id # Absent
                /\ out[i].type # Absent
                /\ IF raw[i].id = Absent
                   THEN /\ call.uuid4[i] \in UuidHex
                        /\ out[i].id = "call_" \o call.uuid4[i]
                   ELSE out[i].id = raw[i].id
                /\ out[i].type = IF raw[i].type = Absent THEN "function"
                                 ELSE raw[i].type
                /\ out[i].name = raw[i].name
                /\ out[i].arguments = raw[i].arguments

\* two calls were decoded: the first had a type of its own and no id, the
\* second an id of its own and no type
C32_Witness ==
    /\ call.caller = "backfill"
    /\ call.status = "returned"
    /\ Len(call.resp.calls) = 2
    /\ Len(call.value.tool_calls.list) = 2
    /\ call.resp.calls[1].id = Absent
    /\ call.value.tool_calls.list[1].id = "call_4e5f6a7b"
    /\ call.value.tool_calls.list[1].type = "custom"
    /\ call.resp.calls[2].type = Absent
    /\ call.value.tool_calls.list[2].id = "call_m2"
    /\ call.value.tool_calls.list[2].type = "function"

\* the calls whose execute_tool returned in this step
Executed == (1..Len(act'.executed)) \ (1..Len(act.executed))

\* C33: execute_tool returns a string for every call: the invalid-format
\* error for a call without a name, the unknown-tool error for a name that is
\* not registered, the parsing error for arguments that are no JSON, each
\* without the registry being invoked, and the tool error when the tool
\* raises; act() never ends with an exception of execute_tool.
C33_ExecuteToolNeverRaises ==
    /\ [](act.outcome # "raised" /\ ~run.escaped)
    /\ [][ \A k \in Executed :
            LET command == act'.calls[k]
                result == act'.results[k]
                registry == act'.log[k]
            IN  /\ Len(act'.results) = Len(act'.executed)
                /\ command.name = "" =>
                      result = "Error: Invalid command format"
                        /\ registry = "rejected"
                /\ command.name = "no_such_tool" =>
                      result = "Error: Unknown tool 'no_such_tool'"
                        /\ registry = "rejected"
                /\ (command.name \in tool_map
                        /\ command.arguments = "garbage") =>
                      result = "Error: Error parsing arguments for "
                                  \o command.name \o ": Invalid JSON format"
                        /\ registry = "rejected"
                /\ registry = "raise" =>
                      result = "Error: Tool '" \o command.name
                                  \o "' encountered a problem" ]_vars

\* act() returned after a call without a name, with the other three errors
\* among the calls seen
C33_Witness ==
    /\ act.outcome = "returned"
    /\ Len(act.calls) = 2
    /\ act.calls[1].name = ""
    /\ act.results[1] = "Error: Invalid command format"
    /\ act.calls[2].name = "terminate"
    /\ act.calls[2].arguments = "garbage"
    /\ act.log = <<"rejected", "rejected">>
    /\ agent.state = "RUNNING"

\* C35: when the arguments of a special tool do not parse or the tool raises,
\* execute_tool returns an error string, no summary call is made, and
\* final_summary and the state stay as they are; the summary of
\* _handle_special_tool is generated only after the tool was executed
\* without an exception.
C35_SpecialToolOnlyOnSuccess ==
    [][ /\ \A k \in Executed :
            (/\ pc = "act"
             /\ _is_special_tool(agent, act'.calls[k].name)
             /\ \/ act'.log[k] = "raise"
                \/ act'.calls[k].arguments = "garbage") =>
                /\ act'.results[k] \in ErrorStrings
                /\ pc' = "act"
                /\ call' = call
                /\ call.status = "idle"
                /\ agent'.final_summary = agent.final_summary
                /\ agent'.state = agent.state
        /\ (pc = "act" /\ pc' = "summary") =>
                /\ act'.why # "raise"
                /\ act.calls[act.i].arguments # "garbage"
                /\ act.calls[act.i].name \in tool_map ]_vars

\* a terminate call whose tool raised was the only call of act(): the agent
\* is still running and has no summary
C35_Witness ==
    /\ act.outcome = "returned"
    /\ Len(act.calls) = 1
    /\ act.calls[1].name = "terminate"
    /\ act.calls[1].arguments = "{}"
    /\ act.log = <<"raise">>
    /\ act.results[1] \in ErrorStrings
    /\ agent.state = "RUNNING"
    /\ agent.final_summary = <<>>

====
